---- MODULE Spec2Model ----
(***************************************************************************)
(* Model of the BVH-tree cache of source/blender/blenkernel/intern/        *)
(* bvhutils.cc: the slot table (bvhcache_find / bvhcache_insert /          *)
(* bvhcache_unlock), the tree builders, and the two acquisition entry      *)
(* points BKE_bvhtree_from_mesh_get and BKE_bvhtree_from_editmesh_get,     *)
(* run by several threads under sequentially consistent interleaving.     *)
(* Every shared read and write of the source is one step of a thread.      *)
(* BLI_assert is recorded in `asserts` and execution continues, as in a    *)
(* release build.                                                          *)
(***************************************************************************)
EXTENDS Integers, Sequences, FiniteSets, TLC

(* ---------------------------- bounds ----------------------------------- *)

\* number of acquisition calls started in one behaviour
MaxCalls == 3

\* largest number of candidates handed to a builder with a caller's mask
MaxElems == 5

\* largest number of vertices, edges and polygons of a surface whose
\* geometry varies
MaxVerts == 3

MaxEdges == 2

MaxPolys == 3

\* largest distance of a candidate of a nearest-point search or a ray
\* cast, and the largest number of callback calls of one search or cast
MaxDist == 2

MaxQueries == 3

\* the threads
Threads == {1, 2, 3}

\* the surfaces: Mesh objects, each with its own bvh_cache and eval_mutex
Surfaces == {1, 2}

\* the null pointer (BVHTree * and BVHCache *), and "no thread" for a mutex
NULL == 0

(* ---------------------------- BVHCacheType ----------------------------- *)

MeshTypes ==
  {"VERTS", "EDGES", "FACES", "LOOPTRI", "LOOPTRI_NO_HIDDEN", "LOOSEVERTS", "LOOSEEDGES"}

EMTypes == {"EM_VERTS", "EM_EDGES", "EM_LOOPTRI"}

\* every value of the enum below BVHTREE_MAX_ITEM: the slots of a BVHCache
BVHCacheType == MeshTypes \cup EMTypes

\* a request: which entry point, which type, and (for the edit-mesh entry
\* point) whether bvh_cache_p is given
Req(api, type, with_cache) == [api |-> api, type |-> type, with_cache |-> with_cache]

\* every call with a type its entry point supports
Supported ==
  {Req("mesh", ty, TRUE) : ty \in MeshTypes}
    \cup {Req("editmesh", ty, wc) : ty \in EMTypes, wc \in BOOLEAN}

\* calls with a type the entry point has no builder for
Misuse ==
  {Req("mesh", "EM_VERTS", TRUE), Req("editmesh", "VERTS", TRUE),
   Req("editmesh", "FACES", FALSE)}

\* The calls the callers make in one behaviour.
\*   "mixed": two threads; on the first surface the vertices and the
\*     edit-mesh triangles (with and without a cache reference), on the
\*     second surface, whose cache is a different BVHCache, the vertices.
\*   "race": three threads, each asks once for the vertices of the first
\*     surface.
\*   "single": one thread, any supported call and the misuses, on any
\*     surface, one call fewer than in the first two workloads.
\*   "uncached": one thread, the bvhtree_from_*_ex builders, the point-cloud
\*     builder and the cached vertices, on any surface, one call fewer than
\*     in the first two.
\*   "find": two threads, each either asks for the vertices of the first
\*     surface or calls bvhcache_find without a lock request for the vertex
\*     slot of any surface, and a third thread calls bvhcache_has_tree on
\*     the cache of any surface; one call fewer than in the first two.
\*   "masks": one thread, one call of a bvhtree_from_*_ex builder over up
\*     to MaxElems candidates with any mask over them.
\*   "geometry": one thread asks for the loose vertices, the loose edges or
\*     the visible triangles of the first surface, whose geometry is any of
\*     Geometries.
\*   "nearest": no call of the cache; one nearest-point search calls the
\*     nearest callback of a bundle on up to MaxQueries primitives.
\*   "raycast": no call of the cache; one ray cast calls the ray-cast
\*     callback of a bundle on up to MaxQueries primitives.
Workloads ==
  {"mixed", "race", "single", "uncached", "find", "masks", "geometry", "nearest",
   "raycast"}

CallThreads(w) ==
  CASE w \in {"mixed", "find"} -> {1, 2}
    [] w = "race" -> Threads
    [] OTHER -> {1}

CallLimit(w) ==
  CASE w \in {"single", "uncached", "find"} -> MaxCalls - 1
    [] w = "geometry" -> MaxCalls - 2
    [] w \in {"nearest", "raycast"} -> 0
    [] OTHER -> MaxCalls

Requests(w, s) ==
  CASE w = "mixed" ->
         IF s = 1
         THEN {Req("mesh", "VERTS", TRUE), Req("editmesh", "EM_LOOPTRI", TRUE),
               Req("editmesh", "EM_LOOPTRI", FALSE)}
         ELSE {Req("mesh", "VERTS", TRUE)}
    [] w \in {"race", "find"} -> IF s = 1 THEN {Req("mesh", "VERTS", TRUE)} ELSE {}
    [] w = "single" -> Supported \cup Misuse
    [] w = "masks" -> {}
    [] w = "geometry" ->
         IF s = 1
         THEN {Req("mesh", ty, TRUE) : ty \in {"LOOSEVERTS", "LOOSEEDGES", "LOOPTRI_NO_HIDDEN"}}
         ELSE {}
    [] OTHER -> {Req("mesh", "VERTS", TRUE)}

(* ---------------------------- surfaces --------------------------------- *)

\* A mesh with three vertices (vertex 2 loose), two edges of which edge 1 is
\* loose, one tessellated face, and two polygons (a hidden triangle and a
\* visible quad, so three loop-triangles); its edit-mesh has two vertices,
\* one edge and one triangle.
MeshFull ==
  [totvert |-> 3,
   edges |-> << <<0, 1>>, <<1, 1>> >>,
   totface |-> 1,
   polys |-> <<3, 4>>,
   hide_single |-> FALSE,
   hide_poly |-> <<TRUE, FALSE>>,
   loose_bits |-> <<FALSE, TRUE>>,
   loose_count |-> 1,
   em_totvert |-> 2,
   em_totedge |-> 1,
   em_tottri |-> 1]

\* A mesh without any element.
MeshEmpty ==
  [totvert |-> 0,
   edges |-> << >>,
   totface |-> 0,
   polys |-> << >>,
   hide_single |-> TRUE,
   hide_poly |-> << >>,
   loose_bits |-> << >>,
   loose_count |-> 0,
   em_totvert |-> 0,
   em_totedge |-> 0,
   em_tottri |-> 0]

\* every sequence of at most k elements of S
SeqsUpTo(S, k) == UNION {[1..j -> S] : j \in 0..k}

\* meshes of up to MaxVerts vertices with any list of up to MaxEdges edges
\* between them, repeated edges and edges from a vertex to itself included
EdgeMeshes ==
  UNION {{[MeshFull EXCEPT !.totvert = n, !.edges = es,
                            !.loose_bits = [i \in 1..Len(es) |-> TRUE],
                            !.loose_count = Len(es)] :
            es \in SeqsUpTo((0..(n - 1)) \X (0..(n - 1)), MaxEdges)} :
           n \in 0..MaxVerts}

\* the hide attribute of n polygons: none (lookup_or_default then gives
\* the single value false), or any stored array
HideAttrs(n) ==
  {[single |-> TRUE, hide |-> [i \in 1..n |-> FALSE]]}
    \cup {[single |-> FALSE, hide |-> h] : h \in [1..n -> BOOLEAN]}

\* meshes of up to MaxPolys polygons, triangles and quads, with any hide
\* attribute
PolyMeshes ==
  UNION {{[MeshFull EXCEPT !.polys = ps, !.hide_single = a.single, !.hide_poly = a.hide] :
            a \in HideAttrs(Len(ps))} :
           ps \in SeqsUpTo({3, 4}, MaxPolys)}

\* The loose-edge classification of a surface with n edges, which the
\* surface computes: a bit per edge with the number of set bits, or, when
\* the surface is known to have no loose edge, no bits and the count 0.
LooseEdgeCaches(n) ==
  {[bits |-> b, count |-> Cardinality({i \in 1..n : b[i]})] : b \in [1..n -> BOOLEAN]}
    \cup {[bits |-> << >>, count |-> 0]}

\* meshes of up to MaxEdges + 1 edges with any loose-edge classification
LooseMeshes ==
  UNION {{[MeshFull EXCEPT !.edges = [i \in 1..n |-> <<0, 1>>],
                            !.loose_bits = c.bits, !.loose_count = c.count] :
            c \in LooseEdgeCaches(n)} :
           n \in 0..(MaxEdges + 1)}

\* the geometry of the surfaces in a workload: the first is the full mesh
\* (in "geometry" any of the meshes above), the others are empty
Geometries(w) ==
  {[s \in Surfaces |-> IF s = 1 THEN m ELSE MeshEmpty] :
     m \in IF w = "geometry" THEN EdgeMeshes \cup PolyMeshes \cup LooseMeshes ELSE {MeshFull}}

\* the arrays a caller hands to an _ex builder: n vertices, n edges, n
\* triangles (one per polygon), and an edit-mesh with n of each
MeshOfSize(n) ==
  [totvert |-> n,
   edges |-> [i \in 1..n |-> <<i - 1, i - 1>>],
   totface |-> n,
   polys |-> [i \in 1..n |-> 3],
   hide_single |-> TRUE,
   hide_poly |-> << >>,
   loose_bits |-> << >>,
   loose_count |-> 0,
   em_totvert |-> n,
   em_totedge |-> n,
   em_tottri |-> n]

(* ---------------------------- helpers ---------------------------------- *)

RECURSIVE SumSeq(_)
SumSeq(s) == IF s = << >> THEN 0 ELSE Head(s) + SumSeq(Tail(s))

\* ME_POLY_TRI_TOT(mp): a polygon of n loops has n - 2 triangles
PolyTriTot(totloop) == totloop - 2

\* mesh->looptris().size()
LooptriLen(m) == SumSeq([i \in 1..Len(m.polys) |-> PolyTriTot(m.polys[i])])

\* bit i (0-based) of a mask
Bit(mask, i) == mask[i + 1]

RECURSIVE Kept(_, _, _)
\* a loop that numbers the kept candidates consecutively
Kept_Renumbered(n, mask, i) ==
  [j \in 1..Cardinality({k \in i..(n - 1) : mask = << >> \/ mask[k + 1]}) |-> j - 1]

\* the indices 0..n-1 kept by a builder's loop, in increasing order
Kept(n, mask, i) ==
  IF i >= n THEN << >>
  ELSE IF mask # << >> /\ ~Bit(mask, i) THEN Kept(n, mask, i + 1)
  ELSE <<i>> \o Kept(n, mask, i + 1)

(* ---------------------------- mask derivation -------------------------- *)

\* loose_verts_map_get: a mask of verts_num bits, all set, from which both
\* endpoints of every edge are cleared; the count is verts_num minus the
\* number of bits cleared.
RECURSIVE LooseVertsScan(_, _, _, _)
\* a scan that counts both endpoints of every edge as newly linked
LooseVertsScan_CountAll(edges, i, mask, linked) ==
  [mask |-> [v \in 1..Len(mask) |->
               \A j \in 1..Len(edges) : edges[j][1] # v - 1 /\ edges[j][2] # v - 1],
   linked |-> 2 * Len(edges)]

\* the loop of loose_verts_map_get from edge i on: an endpoint whose bit is
\* still set is cleared and counted
LooseVertsScan(edges, i, mask, linked) ==
  IF i > Len(edges) THEN [mask |-> mask, linked |-> linked]
  ELSE LET v1 == edges[i][1]
           v2 == edges[i][2]
           c1 == Bit(mask, v1)
           m1 == IF c1 THEN [mask EXCEPT ![v1 + 1] = FALSE] ELSE mask
           n1 == IF c1 THEN linked + 1 ELSE linked
           c2 == Bit(m1, v2)
           m2 == IF c2 THEN [m1 EXCEPT ![v2 + 1] = FALSE] ELSE m1
           n2 == IF c2 THEN n1 + 1 ELSE n1
       IN LooseVertsScan(edges, i + 1, m2, n2)

loose_verts_map_get(edges, verts_num) ==
  LET r == LooseVertsScan(edges, 1, [i \in 1..verts_num |-> TRUE], 0)
  IN [mask |-> r.mask, count |-> verts_num - r.linked]

\* loose_edges_map_get: the surface's loose-edge classification, as stored
loose_edges_map_get(m) == [mask |-> m.loose_bits, count |-> m.loose_count]

\* looptri_no_hidden_map_get: no mask (and the count left untouched) when
\* the hide attribute is a single false value; otherwise the triangles of
\* each polygon in polygon order, set unless the polygon is hidden.
RECURSIVE NoHiddenScan(_, _, _, _, _)
\* a scan that does not step over the triangles of a hidden polygon
NoHiddenScan_Packed(polys, hide, p, mask, index) ==
  [i \in 1..Len(mask) |->
     i <= SumSeq([q \in 1..Len(polys) |-> IF hide[q] THEN 0 ELSE PolyTriTot(polys[q])])]

\* the loop of looptri_no_hidden_map_get from polygon p on, with
\* looptri_index at `index`
NoHiddenScan(polys, hide, p, mask, index) ==
  IF p > Len(polys) THEN mask
  ELSE LET n == PolyTriTot(polys[p])
       IN IF hide[p]
          THEN NoHiddenScan(polys, hide, p + 1, mask, index + n)
          ELSE NoHiddenScan(polys, hide, p + 1,
                 [i \in 1..Len(mask) |->
                    IF i > index /\ i <= index + n THEN TRUE ELSE mask[i]],
                 index + n)

looptri_no_hidden_map_get(m, count_in) ==
  IF m.hide_single /\ (m.hide_poly = << >> \/ ~m.hide_poly[1])
  THEN [mask |-> << >>, count |-> count_in]
  ELSE LET mask == NoHiddenScan(m.polys, m.hide_poly, 1,
                                [i \in 1..LooptriLen(m) |-> FALSE], 0)
       IN [mask |-> mask,
           count |-> Cardinality({i \in 1..Len(mask) : mask[i]})]

(* ---------------------------- builders --------------------------------- *)

\* What a *_create_tree function does up to and including its insertion
\* loop: `early` is a return of nullptr before BLI_bvhtree_new is called,
\* `maxsize` the size passed to BLI_bvhtree_new, `prims` the identifiers
\* inserted in order, `asserts` the BLI_asserts that fail.
BuildPlan(early, maxsize, prims, range_ok, len_checked) ==
  [early |-> early,
   maxsize |-> maxsize,
   prims |-> prims,
   asserts |-> (IF range_ok THEN {} ELSE {"mask_count_range"})
                 \cup (IF ~early /\ len_checked /\ Len(prims) # maxsize
                       THEN {"tree_len"} ELSE {})]

\* the assertions of a plan that fail in a call: the one on the tree's
\* length is reached only when BLI_bvhtree_new returned a tree
PlanAsserts(plan, allocated) ==
  IF allocated THEN plan.asserts ELSE plan.asserts \ {"tree_len"}

\* a builder that takes the caller's count whether or not there is a mask
Active_Supplied(num, mask, num_active) == num_active

\* the active count: the caller's count with a mask, every candidate
\* without one
Active(num, mask, num_active) == IF mask # << >> THEN num_active ELSE num

RangeOk(num, mask, num_active) ==
  mask = << >> \/ (num_active >= 0 /\ num_active <= num)

bvhtree_from_mesh_verts_create_tree(verts_num, verts_mask, verts_num_active) ==
  LET act == Active(verts_num, verts_mask, verts_num_active)
  IN BuildPlan(act = 0, act, Kept(verts_num, verts_mask, 0),
               RangeOk(verts_num, verts_mask, verts_num_active), TRUE)

bvhtree_from_mesh_edges_create_tree(edge_num, edges_mask, edges_num_active) ==
  LET act == Active(edge_num, edges_mask, edges_num_active)
  IN BuildPlan(act = 0, act, Kept(edge_num, edges_mask, 0),
               RangeOk(edge_num, edges_mask, edges_num_active), FALSE)

bvhtree_from_mesh_faces_create_tree(faces_num, faces_mask, faces_num_active) ==
  LET act == Active(faces_num, faces_mask, faces_num_active)
  IN BuildPlan(faces_num = 0, act, Kept(faces_num, faces_mask, 0),
               faces_num = 0 \/ RangeOk(faces_num, faces_mask, faces_num_active),
               TRUE)

bvhtree_from_mesh_looptri_create_tree(looptri_num, looptri_mask, looptri_num_active) ==
  LET act == Active(looptri_num, looptri_mask, looptri_num_active)
  IN BuildPlan(act = 0, act, Kept(looptri_num, looptri_mask, 0),
               RangeOk(looptri_num, looptri_mask, looptri_num_active), TRUE)

bvhtree_from_editmesh_verts_create_tree(verts_num, verts_mask, verts_num_active) ==
  LET act == Active(verts_num, verts_mask, verts_num_active)
  IN BuildPlan(FALSE, act, Kept(verts_num, verts_mask, 0),
               RangeOk(verts_num, verts_mask, verts_num_active), TRUE)

bvhtree_from_editmesh_edges_create_tree(edges_num, edges_mask, edges_num_active) ==
  LET act == Active(edges_num, edges_mask, edges_num_active)
  IN BuildPlan(FALSE, act, Kept(edges_num, edges_mask, 0),
               RangeOk(edges_num, edges_mask, edges_num_active), TRUE)

bvhtree_from_editmesh_looptri_create_tree(looptri_num, looptri_mask, looptri_num_active) ==
  LET act == Active(looptri_num, looptri_mask, looptri_num_active)
  IN BuildPlan(looptri_num = 0, act, Kept(looptri_num, looptri_mask, 0),
               looptri_num = 0 \/ RangeOk(looptri_num, looptri_mask, looptri_num_active),
               TRUE)

\* the plan of a call that reaches BLI_assert(false) in the switch: no
\* builder runs and data->tree keeps the nullptr of the setup
UnsupportedPlan ==
  [early |-> TRUE, maxsize |-> 0, prims |-> << >>, asserts |-> {"unsupported_type"}]

\* the switch of BKE_bvhtree_from_mesh_get
MeshGetPlan(m, type) ==
  CASE type = "LOOSEVERTS" ->
         LET mk == loose_verts_map_get(m.edges, m.totvert)
         IN bvhtree_from_mesh_verts_create_tree(m.totvert, mk.mask, mk.count)
    [] type = "VERTS" ->
         bvhtree_from_mesh_verts_create_tree(m.totvert, << >>, -1)
    [] type = "LOOSEEDGES" ->
         LET mk == loose_edges_map_get(m)
         IN bvhtree_from_mesh_edges_create_tree(Len(m.edges), mk.mask, mk.count)
    [] type = "EDGES" ->
         bvhtree_from_mesh_edges_create_tree(Len(m.edges), << >>, -1)
    [] type = "FACES" ->
         bvhtree_from_mesh_faces_create_tree(m.totface, << >>, -1)
    [] type = "LOOPTRI_NO_HIDDEN" ->
         LET mk == looptri_no_hidden_map_get(m, -1)
         IN bvhtree_from_mesh_looptri_create_tree(LooptriLen(m), mk.mask, mk.count)
    [] type = "LOOPTRI" ->
         bvhtree_from_mesh_looptri_create_tree(LooptriLen(m), << >>, -1)
    [] OTHER -> UnsupportedPlan

\* the switch of BKE_bvhtree_from_editmesh_get
EditmeshGetPlan(m, type) ==
  CASE type = "EM_VERTS" ->
         bvhtree_from_editmesh_verts_create_tree(m.em_totvert, << >>, -1)
    [] type = "EM_EDGES" ->
         bvhtree_from_editmesh_edges_create_tree(m.em_totedge, << >>, -1)
    [] type = "EM_LOOPTRI" ->
         bvhtree_from_editmesh_looptri_create_tree(m.em_tottri, << >>, -1)
    [] OTHER -> UnsupportedPlan

(* ---------------------------- bundles ----------------------------------- *)

\* A bundle (BVHTreeFromMesh or BVHTreeFromEditMesh): the tree, the cached
\* flag, the two callbacks, and the references to the arrays of a surface
\* (of the mesh: vert_positions, edge, face, loop, looptri; of the
\* edit-mesh: em), each the surface it points into or NULL.

\* a setup whose switch falls from the vertex case into the edge case
bvhtree_from_mesh_setup_data_Fallthrough(tree, type, positions, edge, face, loop, looptris) ==
  [tree |-> tree,
   cached |-> FALSE,
   nearest_callback |->
     CASE type \in {"VERTS", "LOOSEVERTS", "EDGES", "LOOSEEDGES"} -> "mesh_edges_nearest_point"
       [] type = "FACES" -> "mesh_faces_nearest_point"
       [] type \in {"LOOPTRI", "LOOPTRI_NO_HIDDEN"} -> "mesh_looptri_nearest_point"
       [] OTHER -> "nullptr",
   raycast_callback |->
     CASE type \in {"VERTS", "LOOSEVERTS", "EDGES", "LOOSEEDGES"} -> "mesh_edges_spherecast"
       [] type = "FACES" -> "mesh_faces_spherecast"
       [] type \in {"LOOPTRI", "LOOPTRI_NO_HIDDEN"} -> "mesh_looptri_spherecast"
       [] OTHER -> "nullptr",
   vert_positions |-> positions, edge |-> edge, face |-> face, loop |-> loop,
   looptri |-> looptris, em |-> NULL]

\* bvhtree_from_mesh_setup_data: the bundle is zeroed, the tree and the
\* array references stored and the callback pair chosen from the type alone
bvhtree_from_mesh_setup_data(tree, type, positions, edge, face, loop, looptris) ==
  [tree |-> tree,
   cached |-> FALSE,
   nearest_callback |->
     CASE type \in {"EDGES", "LOOSEEDGES"} -> "mesh_edges_nearest_point"
       [] type = "FACES" -> "mesh_faces_nearest_point"
       [] type \in {"LOOPTRI", "LOOPTRI_NO_HIDDEN"} -> "mesh_looptri_nearest_point"
       [] OTHER -> "nullptr",
   raycast_callback |->
     CASE type \in {"VERTS", "LOOSEVERTS"} -> "mesh_verts_spherecast"
       [] type \in {"EDGES", "LOOSEEDGES"} -> "mesh_edges_spherecast"
       [] type = "FACES" -> "mesh_faces_spherecast"
       [] type \in {"LOOPTRI", "LOOPTRI_NO_HIDDEN"} -> "mesh_looptri_spherecast"
       [] OTHER -> "nullptr",
   vert_positions |-> positions, edge |-> edge, face |-> face, loop |-> loop,
   looptri |-> looptris, em |-> NULL]

\* bvhtree_from_editmesh_setup_data
bvhtree_from_editmesh_setup_data(tree, type, em) ==
  [tree |-> tree,
   cached |-> FALSE,
   nearest_callback |->
     CASE type = "EM_LOOPTRI" -> "editmesh_looptri_nearest_point"
       [] OTHER -> "nullptr",
   raycast_callback |->
     CASE type = "EM_VERTS" -> "editmesh_verts_spherecast"
       [] type = "EM_LOOPTRI" -> "editmesh_looptri_spherecast"
       [] OTHER -> "nullptr",
   vert_positions |-> NULL, edge |-> NULL, face |-> NULL, loop |-> NULL,
   looptri |-> NULL, em |-> em]

\* setup functions that accept every type
SetupAsserts_None(api, type) == {}

\* the types on which a setup function runs into BLI_assert(false)
SetupAsserts(api, type) ==
  IF (api = "mesh" /\ type \in MeshTypes) \/ (api = "editmesh" /\ type \in EMTypes)
  THEN {} ELSE {"unsupported_type"}

(* ---------------------------- nearest-point callbacks ------------------ *)

\* A squared distance is a float: a number (here 0..MaxDist) or a NaN, to
\* which every comparison is false.
NaN == -1

DistSq == 0..MaxDist \cup {NaN}

FloatLess(a, b) == a # NaN /\ b # NaN /\ a < b

\* A BVHTreeNearest: index, dist_sq, and co and no, each named by the
\* primitive and the triangle of it from which it was computed.
\* The caller of a search starts it with index -1 and its search radius.
NearestInit(dist_sq) ==
  [index |-> -1, dist_sq |-> dist_sq, co |-> <<-1, 0>>, no |-> <<-1, 0>>]

\* an update that also takes a candidate at the distance of the best
NearestWrite_OrEqual(nearest, index, k, dist_sq) ==
  IF dist_sq # NaN /\ nearest.dist_sq # NaN /\ dist_sq <= nearest.dist_sq
  THEN [index |-> index, dist_sq |-> dist_sq, co |-> <<index, k>>, no |-> <<index, k>>]
  ELSE nearest

\* if (dist_sq < nearest->dist_sq) { nearest->index = index;
\* nearest->dist_sq = dist_sq; copy_v3_v3(nearest->co, nearest_tmp); and the
\* normal of the same triangle or edge }, for candidate k of primitive index
NearestWrite(nearest, index, k, dist_sq) ==
  IF FloatLess(dist_sq, nearest.dist_sq)
  THEN [index |-> index, dist_sq |-> dist_sq, co |-> <<index, k>>, no |-> <<index, k>>]
  ELSE nearest

\* mesh_faces_nearest_point: the triangle (v1, v2, v3) and, when the face
\* has a fourth vertex, the triangle (v1, v3, v4), in this order; d is the
\* sequence of the squared distances of the query point to them
mesh_faces_nearest_point(nearest, index, d) ==
  LET first == NearestWrite(nearest, index, 1, d[1])
  IN IF Len(d) = 2 THEN NearestWrite(first, index, 2, d[2]) ELSE first

\* mesh_looptri_nearest_point: one triangle
mesh_looptri_nearest_point(nearest, index, d) == NearestWrite(nearest, index, 1, d[1])

\* editmesh_looptri_nearest_point: one triangle
editmesh_looptri_nearest_point(nearest, index, d) == NearestWrite(nearest, index, 1, d[1])

\* mesh_edges_nearest_point: one segment
mesh_edges_nearest_point(nearest, index, d) == NearestWrite(nearest, index, 1, d[1])

\* the call nearest_callback(userdata, index, co, nearest)
NearestCallback(callback, nearest, index, d) ==
  CASE callback = "mesh_faces_nearest_point" -> mesh_faces_nearest_point(nearest, index, d)
    [] callback = "mesh_looptri_nearest_point" -> mesh_looptri_nearest_point(nearest, index, d)
    [] callback = "editmesh_looptri_nearest_point" ->
         editmesh_looptri_nearest_point(nearest, index, d)
    [] OTHER -> mesh_edges_nearest_point(nearest, index, d)

\* the nearest callbacks the setup functions store in a bundle
NearestCallbacks ==
  ({bvhtree_from_mesh_setup_data(NULL, ty, NULL, NULL, NULL, NULL, NULL).nearest_callback :
      ty \in MeshTypes}
     \cup {bvhtree_from_editmesh_setup_data(NULL, ty, NULL).nearest_callback : ty \in EMTypes})
    \ {"nullptr"}

\* the squared distances of a query point to the triangles of each of two
\* primitives: one triangle, or one or two for a tessellated face
Candidates(callback) ==
  LET one == {<<a>> : a \in DistSq}
      two == {<<a, b>> : a \in DistSq, b \in DistSq}
      per == IF callback = "mesh_faces_nearest_point" THEN one \cup two ELSE one
  IN [1..2 -> per]

\* a search: the callback of the bundle, the distances of the primitives
\* of the tree, and the primitives the callback was called on so far
Searches(w) ==
  IF w = "nearest"
  THEN UNION {{[callback |-> cb, dists |-> c, called |-> << >>] : c \in Candidates(cb)} :
                cb \in NearestCallbacks}
  ELSE {[callback |-> "nullptr", dists |-> << >>, called |-> << >>]}

(* ---------------------------- ray-cast callbacks ----------------------- *)

\* A distance along a ray is a float: a number 0..MaxDist, FLT_MAX, which
\* is larger than all of them, a negative number, or a NaN.
FLT_MAX == MaxDist + 1

Negative == -2

FloatGE0(a) == a # NaN /\ a >= 0

\* A BVHTreeRayHit: index, dist, and co and no, each named by the
\* primitive and the part of it from which it was computed.
\* The caller of a cast starts it with index -1 and the largest distance
\* it accepts.
RayHitInit(dist) ==
  [index |-> -1, dist |-> dist, co |-> <<-1, 0>>, no |-> <<-1, 0>>]

\* what the intersection test of a ray with a triangle finds: no
\* intersection, or the distance along the ray it computes
NoHit == -3

TriHits == {NoHit, Negative, NaN} \cup 0..MaxDist

\* bvhtree_ray_tri_intersection: the distance of the intersection, FLT_MAX
\* without one
bvhtree_ray_tri_intersection(ray, m_dist, tri) == IF tri = NoHit THEN FLT_MAX ELSE tri

\* bvhtree_sphereray_tri_intersection: the sphere is swept from the origin
\* over the distance m_dist; idist * m_dist when it meets the triangle on
\* the way, FLT_MAX otherwise
bvhtree_sphereray_tri_intersection(ray, radius, m_dist, tri) ==
  IF tri \in 0..MaxDist /\ m_dist # NaN /\ tri <= m_dist THEN tri ELSE FLT_MAX

\* if (ray->radius == 0.0f) ... else ...
TriDist(ray, m_dist, tri) ==
  IF ray.radius = 0
  THEN bvhtree_ray_tri_intersection(ray, m_dist, tri)
  ELSE bvhtree_sphereray_tri_intersection(ray, ray.radius, m_dist, tri)

\* an update that takes a candidate behind the origin of the ray
RayWrite_NoSign(hit, index, k, dist) ==
  IF FloatLess(dist, hit.dist)
  THEN [index |-> index, dist |-> dist, co |-> <<index, k>>, no |-> <<index, k>>]
  ELSE hit

\* if (dist >= 0 && dist < hit->dist) { hit->index = index; hit->dist =
\* dist; hit->co the point of the ray at dist; hit->no the normal of the
\* triangle }, for triangle k of primitive index
RayWrite(hit, index, k, dist) ==
  IF FloatGE0(dist) /\ FloatLess(dist, hit.dist)
  THEN [index |-> index, dist |-> dist, co |-> <<index, k>>, no |-> <<index, k>>]
  ELSE hit

\* mesh_faces_spherecast: the triangle (v1, v2, v3) and, when the face has a
\* fourth vertex, the triangle (v1, v3, v4), each tested against the
\* hit->dist of the moment
mesh_faces_spherecast(hit, index, ray, tris) ==
  LET first == RayWrite(hit, index, 1, TriDist(ray, hit.dist, tris[1]))
  IN IF Len(tris) = 2
     THEN RayWrite(first, index, 2, TriDist(ray, first.dist, tris[2]))
     ELSE first

\* mesh_looptri_spherecast: one triangle
mesh_looptri_spherecast(hit, index, ray, tris) ==
  RayWrite(hit, index, 1, TriDist(ray, hit.dist, tris[1]))

\* editmesh_looptri_spherecast: one triangle
editmesh_looptri_spherecast(hit, index, ray, tris) ==
  RayWrite(hit, index, 1, TriDist(ray, hit.dist, tris[1]))

\* mesh_verts_spherecast_do: i1 is the point of the ray segment closest to
\* v; ray.points[v].behind is dot_v3v3v3(r1, i1, r2) < 0 and
\* ray.points[v].dist is len_v3v3(r1, i1).  The normal is not written.
mesh_verts_spherecast_do(hit, index, v, ray) ==
  IF ~ray.points[v].behind /\ FloatLess(ray.points[v].dist, hit.dist)
  THEN [hit EXCEPT !.index = index, !.dist = ray.points[v].dist, !.co = <<v, 0>>]
  ELSE hit

\* editmesh_verts_spherecast
editmesh_verts_spherecast(hit, index, ray, v) == mesh_verts_spherecast_do(hit, index, v, ray)

\* mesh_verts_spherecast
mesh_verts_spherecast(hit, index, ray, v) == mesh_verts_spherecast_do(hit, index, v, ray)

\* equals_v3v3: positions are named so that two names are equal exactly
\* when the coordinates are
equals_v3v3(v1, v2) == v1 = v2

\* the part of mesh_edges_spherecast after the special case: ray.line.isect
\* is the result of isect_line_line_v3, .behind is dot_v3v3v3(r1, i2, r2) < 0,
\* .dist is len_v3v3(r1, i2), .close is len_squared_v3v3(i1, i2) <= radius_sq
EdgeLineCast(hit, index, ray) ==
  IF ray.line.isect /\ ~ray.line.behind /\ FloatLess(ray.line.dist, hit.dist)
       /\ ray.line.close
  THEN [hit EXCEPT !.index = index, !.dist = ray.line.dist, !.co = <<index, 1>>]
  ELSE hit

\* an edge callback without the special case for a zero-length edge
mesh_edges_spherecast_NoSpecialCase(hit, index, ray, edge) == EdgeLineCast(hit, index, ray)

\* mesh_edges_spherecast: a zero-length edge is handled as a point
mesh_edges_spherecast(hit, index, ray, edge) ==
  IF equals_v3v3(edge[1], edge[2])
  THEN mesh_verts_spherecast_do(hit, index, edge[1], ray)
  ELSE EdgeLineCast(hit, index, ray)

\* the call raycast_callback(userdata, index, ray, hit); prim is the
\* geometry of primitive index
RaycastCallback(callback, hit, index, ray, prim) ==
  CASE callback = "mesh_faces_spherecast" -> mesh_faces_spherecast(hit, index, ray, prim)
    [] callback = "mesh_looptri_spherecast" -> mesh_looptri_spherecast(hit, index, ray, prim)
    [] callback = "editmesh_looptri_spherecast" ->
         editmesh_looptri_spherecast(hit, index, ray, prim)
    [] callback = "mesh_verts_spherecast" -> mesh_verts_spherecast(hit, index, ray, prim)
    [] callback = "editmesh_verts_spherecast" ->
         editmesh_verts_spherecast(hit, index, ray, prim)
    [] OTHER -> mesh_edges_spherecast(hit, index, ray, prim)

\* the ray-cast callbacks the setup functions store in a bundle
RaycastCallbacks ==
  ({bvhtree_from_mesh_setup_data(NULL, ty, NULL, NULL, NULL, NULL, NULL).raycast_callback :
      ty \in MeshTypes}
     \cup {bvhtree_from_editmesh_setup_data(NULL, ty, NULL).raycast_callback : ty \in EMTypes})
    \ {"nullptr"}

TriCallbacks ==
  {"mesh_faces_spherecast", "mesh_looptri_spherecast", "editmesh_looptri_spherecast"}

VertCallbacks == {"mesh_verts_spherecast", "editmesh_verts_spherecast"}

\* the positions of the vertices
Points == {1, 2}

\* a ray against a point: the closest point of the ray is behind its origin
\* or at a distance, which is a length
PointCasts == [behind : BOOLEAN, dist : 0..MaxDist \cup {NaN}]

\* a ray against the line of an edge
LineCasts == [isect : BOOLEAN, behind : BOOLEAN, dist : 0..MaxDist, close : BOOLEAN]

NoPoint == [behind |-> TRUE, dist |-> 0]

NoLine == [isect |-> FALSE, behind |-> TRUE, dist |-> 0, close |-> FALSE]

\* The rays and the two primitives of a cast with a callback.  Triangles:
\* what the intersection test finds for each, the first face with one or
\* two triangles; vertices: at positions 1 and 2; edges: edge 0 between
\* position 1 and either position, edge 1 between positions 1 and 2.
CastInputs(callback) ==
  LET one == {<<a>> : a \in TriHits}
      two == {<<a, b>> : a \in TriHits, b \in TriHits}
  IN CASE callback \in TriCallbacks ->
            {[ray |-> [radius |-> r, points |-> [v \in Points |-> NoPoint], line |-> NoLine],
              prims |-> <<a, b>>] :
               r \in {0, 1},
               a \in IF callback = "mesh_faces_spherecast" THEN one \cup two ELSE one,
               b \in one}
       [] callback \in VertCallbacks ->
            {[ray |-> [radius |-> 0, points |-> pt, line |-> NoLine], prims |-> <<1, 2>>] :
               pt \in [Points -> PointCasts]}
       [] OTHER ->
            {[ray |-> [radius |-> 1,
                       points |-> [v \in Points |-> IF v = 1 THEN pt ELSE NoPoint],
                       line |-> ln],
              prims |-> << <<1, v2>>, <<1, 2>> >>] :
               pt \in PointCasts, ln \in LineCasts, v2 \in Points}

\* a cast: the callback of the bundle, the ray and the primitives, the
\* hit->dist it started with, and the primitives the callback was called
\* on so far
Casts(w, callback) ==
  IF w = "raycast"
  THEN {[callback |-> callback, ray |-> x.ray, prims |-> x.prims, init |-> d,
         called |-> << >>] :
          x \in CastInputs(callback), d \in 0..MaxDist \cup {FLT_MAX}}
  ELSE {[callback |-> "nullptr",
         ray |-> [radius |-> 0, points |-> [v \in Points |-> NoPoint], line |-> NoLine],
         prims |-> << >>, init |-> FLT_MAX, called |-> << >>]}

\* the setup call of an entry point on surface s (lines 1215-1231, 1330):
\* the looptris are fetched for the two loop-triangle types only
SetupData(api, tree, type, s) ==
  IF api = "mesh"
  THEN bvhtree_from_mesh_setup_data(
         tree, type, s, s, s, s,
         IF type \in {"LOOPTRI", "LOOPTRI_NO_HIDDEN"} THEN s ELSE NULL)
  ELSE bvhtree_from_editmesh_setup_data(tree, type, s)

\* the setup call of an _ex function on the arrays of surface s
ExSetupData(fn, tree, s) ==
  CASE fn = "mesh_verts" ->
         bvhtree_from_mesh_setup_data(tree, "VERTS", s, NULL, NULL, NULL, NULL)
    [] fn = "mesh_edges" ->
         bvhtree_from_mesh_setup_data(tree, "EDGES", s, s, NULL, NULL, NULL)
    [] fn = "mesh_looptri" ->
         bvhtree_from_mesh_setup_data(tree, "LOOPTRI", s, NULL, NULL, s, s)
    [] fn = "editmesh_verts" -> bvhtree_from_editmesh_setup_data(tree, "EM_VERTS", s)
    [] fn = "editmesh_edges" -> bvhtree_from_editmesh_setup_data(tree, "EM_EDGES", s)
    [] OTHER -> bvhtree_from_editmesh_setup_data(tree, "EM_LOOPTRI", s)

\* memset(data, 0, sizeof(*data))
ZeroData ==
  [tree |-> NULL, cached |-> FALSE,
   nearest_callback |-> "nullptr", raycast_callback |-> "nullptr",
   vert_positions |-> NULL, edge |-> NULL, face |-> NULL, loop |-> NULL,
   looptri |-> NULL, em |-> NULL]

(* ---------------------------- state ------------------------------------ *)

VARIABLES
  workload,      \* which calls the callers make (fixed in a behaviour)
  mesh,          \* the geometry of each surface (fixed in a behaviour)
  search,        \* the nearest-point search: its callback and primitives
  nearest,       \* the BVHTreeNearest of the search
  cast,          \* the ray cast: its callback, ray and primitives
  hit,           \* the BVHTreeRayHit of the cast
  has_tree,      \* the last call of bvhcache_has_tree: arguments and result
  bvh_cache,     \* mesh->runtime->bvh_cache of each surface: a BVHCache * or NULL
  eval_mutex,    \* mesh->runtime->eval_mutex of each surface: its holder or NULL
  caches,        \* the heap of BVHCache objects, by address 1..Len(caches)
  trees,         \* the heap of BVHTree objects, by address 1..Len(trees)
  pc,            \* where each thread is in its call
  call,          \* the arguments of each thread's current or last call
  frame,         \* "outer": the call of bvhcache_find made by the entry point,
                 \* "inner": its recursive call with r_locked == nullptr,
                 \* "direct": a call with r_locked == nullptr from elsewhere
  data,          \* the bundle (BVHTreeFromMesh / BVHTreeFromEditMesh) of each thread
  lock_started,  \* the entry point's local lock_started (*r_locked)
  bvh_cache_l,   \* the local BVHCache *bvh_cache of bvhcache_find / bvhcache_insert
  asserts,       \* the BLI_asserts that have failed
  calls,         \* number of calls started
  ev,            \* per thread: what its current or last call has done
  returned,      \* the calls that have returned, with the bundle they returned
  allocs,        \* per surface: number of BVHCache objects allocated for it
  built          \* per surface and type: runs of the build switch for its slot

shared == <<bvh_cache, eval_mutex, caches, trees>>

locals == <<pc, call, frame, data, lock_started, bvh_cache_l>>

history == <<asserts, calls, ev, returned, allocs, built>>

vars == <<workload, mesh, search, nearest, cast, hit, has_tree, shared, locals, history>>

\* the geometry of surface s
MeshOf(s) == mesh[s]

\* MEM_cnew<BVHCache> followed by BLI_mutex_init: every slot empty with a
\* null tree, the mutex free; `freed` counts the MEM_freeN of the object
bvhcache_init ==
  [items |-> [ty \in BVHCacheType |-> [is_filled |-> FALSE, tree |-> NULL]],
   mutex |-> NULL,
   freed |-> 0]

\* the cache of surface s has not been handed to bvhcache_free
Alive(s) == IF bvh_cache[s] = NULL THEN TRUE ELSE caches[bvh_cache[s]].freed = 0

\* what a call has done so far
NoEvents ==
  [saw_null |-> FALSE,     \* line 71 found the cache reference null
   init_locks |-> 0,       \* acquisitions of the eval mutex
   locks |-> 0,            \* acquisitions of the cache mutex
   find_unlocks |-> 0,     \* releases inside bvhcache_find (line 92)
   unlocks |-> 0,          \* releases by bvhcache_unlock
   foreign_unlock |-> FALSE, \* released a mutex it did not hold
   first_read |-> "none",  \* what the first read of the slot saw
   recheck |-> "none",     \* what the read under the mutex saw
   left_held |-> FALSE,    \* bvhcache_find returned with the mutex held
   builds |-> 0,           \* executions of the build switch
   inserted |-> 0,         \* primitives inserted into a tree
   balances |-> 0,         \* calls of BLI_bvhtree_balance
   slot_writes |-> 0,      \* writes to a slot of a cache
   again |-> FALSE,        \* a call for the same target had returned before
                           \* this one began
   before |-> {},          \* the handles those calls returned
   after_release |-> FALSE, \* the thread's previous call was for the same target
                           \* and returned a tree, and its bundle was released
   found |-> FALSE,        \* bvhcache_find returned true
   done |-> FALSE,         \* the call has returned
   ret |-> NULL,           \* the handle it returned
   ret_cached |-> FALSE]   \* data->cached when it returned

Init ==
  /\ workload \in Workloads
  /\ mesh \in Geometries(workload)
  /\ search \in Searches(workload)
  /\ nearest \in {NearestInit(d) : d \in IF workload = "nearest" THEN DistSq ELSE {MaxDist}}
  /\ \E cb \in IF workload = "raycast" THEN RaycastCallbacks ELSE {"nullptr"} :
       cast \in Casts(workload, cb)
  /\ hit = RayHitInit(cast.init)
  /\ has_tree = [n |-> 0, bvh_cache |-> NULL, tree |-> NULL, result |-> FALSE]
  /\ bvh_cache = [s \in Surfaces |-> NULL]
  /\ eval_mutex = [s \in Surfaces |-> NULL]
  /\ caches = << >>
  /\ trees = << >>
  /\ pc = [t \in Threads |-> "idle"]
  /\ call = [t \in Threads |->
               [fn |-> "get", api |-> "mesh", type |-> "VERTS", with_cache |-> TRUE,
                s |-> 1, num |-> 0, mask |-> << >>, count |-> -1]]
  /\ frame = [t \in Threads |-> "outer"]
  /\ data = [t \in Threads |-> ZeroData]
  /\ lock_started = [t \in Threads |-> FALSE]
  /\ bvh_cache_l = [t \in Threads |-> NULL]
  /\ asserts = {}
  /\ calls = 0
  /\ ev = [t \in Threads |-> NoEvents]
  /\ returned = {}
  /\ allocs = [s \in Surfaces |-> 0]
  /\ built = [s \in Surfaces |-> [ty \in BVHCacheType |-> 0]]

Slot(c, type) == caches[c].items[type]

\* two calls of the entry points for the same surface and type, both through
\* the cache of the surface or both without a cache
SameTarget(c1, c2) ==
  c1.fn = c2.fn /\ c1.s = c2.s /\ c1.type = c2.type /\ c1.with_cache = c2.with_cache

\* the entry point of thread t returns data->tree, leaving bundle d
Return(t, d, e) ==
  /\ pc' = [pc EXCEPT ![t] = "idle"]
  /\ data' = [data EXCEPT ![t] = d]
  /\ ev' = [ev EXCEPT ![t] = [e EXCEPT !.done = TRUE, !.ret = d.tree,
                                       !.ret_cached = d.cached]]
  /\ returned' = returned \cup {[call |-> call[t], tree |-> d.tree, cached |-> d.cached]}
  /\ UNCHANGED <<allocs, built>>

\* lines 1234-1242 (1333-1339) on a hit: data->cached = true,
\* BLI_assert(lock_started == false), return data->tree
ReturnHit(t, tree, e) ==
  /\ asserts' = asserts \cup (IF lock_started[t] THEN {"hit_with_lock"} ELSE {})
  /\ Return(t, [data[t] EXCEPT !.tree = tree, !.cached = TRUE], [e EXCEPT !.found = TRUE])
  /\ UNCHANGED lock_started

\* bvhcache_find returns to a caller that asked for no lock: true with
\* *r_tree set, or false with *r_tree as it was
ReturnFind(t, in_cache, tree) ==
  /\ pc' = [pc EXCEPT ![t] = "idle"]
  /\ data' = [data EXCEPT ![t].tree = IF in_cache THEN tree ELSE @]
  /\ ev' = [ev EXCEPT ![t].done = TRUE, ![t].found = in_cache,
                      ![t].ret = IF in_cache THEN tree ELSE NULL]
  /\ UNCHANGED <<frame, lock_started, asserts, returned, allocs, built>>

\* lines 95-97 and 1234-1237 (1333-1336) on a miss: *r_locked = true (with a
\* lock request), return false, data->cached = false
ReturnMiss(t, locked, e) ==
  /\ lock_started' = [lock_started EXCEPT ![t] = locked]
  /\ ev' = [ev EXCEPT ![t] = [e EXCEPT !.left_held = locked]]
  /\ data' = [data EXCEPT ![t].cached = FALSE]
  /\ pc' = [pc EXCEPT ![t] = "create"]
  /\ UNCHANGED <<asserts, returned, allocs, built>>

(* ---------------------------- entry ------------------------------------ *)

\* BKE_bvhtree_from_mesh_get / BKE_bvhtree_from_editmesh_get up to the call
\* of bvhcache_find: the bundle is set up and lock_started cleared.  The
\* edit-mesh entry point without a cache reference goes straight to the
\* build.
Call(t) ==
  /\ pc[t] = "idle"
  /\ UNCHANGED <<workload, mesh, search, nearest, cast, hit, has_tree>>
  /\ t \in CallThreads(workload)
  /\ workload = "race" => ~ev[t].done
  /\ calls < CallLimit(workload)
  /\ \E s \in Surfaces : \E r \in Requests(workload, s) :
       LET c == [fn |-> "get", api |-> r.api, type |-> r.type,
                 with_cache |-> r.with_cache, s |-> s, num |-> 0, mask |-> << >>, count |-> -1]
           eq == {x \in returned : SameTarget(x.call, c)}
       IN /\ call' = [call EXCEPT ![t] = c]
          /\ data' = [data EXCEPT ![t] = SetupData(c.api, NULL, c.type, s)]
          /\ asserts' = asserts \cup SetupAsserts(c.api, c.type)
          /\ ev' = [ev EXCEPT ![t] =
                      [NoEvents EXCEPT !.again = (eq # {}),
                                       !.before = {x.tree : x \in eq},
                                       !.after_release =
                                         /\ ev[t].done
                                         /\ SameTarget(call[t], c)
                                         /\ ev[t].ret # NULL
                                         /\ data[t] = ZeroData]]
          /\ c.with_cache => Alive(s)
          /\ pc' = [pc EXCEPT ![t] = IF c.with_cache THEN "find_null" ELSE "create"]
  /\ calls' = calls + 1
  /\ frame' = [frame EXCEPT ![t] = "outer"]
  /\ lock_started' = [lock_started EXCEPT ![t] = FALSE]
  /\ UNCHANGED <<shared, bvh_cache_l, returned, allocs, built>>

(* ---------------------------- bvhcache_find ---------------------------- *)

\* bvhcache_find(bvh_cache_p, type, r_tree, nullptr, nullptr) called from
\* outside the entry points, with *r_tree null before the call
FindDirect(t) ==
  /\ pc[t] = "idle"
  /\ UNCHANGED <<workload, mesh, search, nearest, cast, hit, has_tree>>
  /\ workload = "find"
  /\ t \in CallThreads(workload)
  /\ calls < CallLimit(workload)
  /\ \E s \in Surfaces :
       /\ Alive(s)
       /\ call' = [call EXCEPT ![t] = [fn |-> "find", api |-> "mesh", type |-> "VERTS",
                                       with_cache |-> TRUE, s |-> s, num |-> 0,
                                       mask |-> << >>, count |-> -1]]
  /\ frame' = [frame EXCEPT ![t] = "direct"]
  /\ data' = [data EXCEPT ![t] = ZeroData]
  /\ ev' = [ev EXCEPT ![t] = NoEvents]
  /\ pc' = [pc EXCEPT ![t] = "find_null"]
  /\ calls' = calls + 1
  /\ UNCHANGED <<shared, lock_started, bvh_cache_l, asserts, returned, allocs, built>>

\* a find that initializes and locks whether or not a lock was requested
do_lock_Always(t) == TRUE

\* bool do_lock = r_locked
do_lock(t) == frame[t] = "outer"

\* the read of *bvh_cache_p at line 71
CacheIsNull(t) == bvh_cache[call[t].s] = NULL

\* a lazy initialization that allocates without looking again
CacheStillNull_Unchecked(t) == TRUE

\* the read of *bvh_cache_p at line 78, under the eval mutex
CacheStillNull(t) == bvh_cache[call[t].s] = NULL

\* a find whose look under the mutex does not see the slot
SlotFilled_NoRecheck(t) == do_lock(t) /\ Slot(bvh_cache_l[t], call[t].type).is_filled

\* a find that looks at the slot only under the mutex
SlotFilled_OnlyLocked(t) == ~do_lock(t) /\ Slot(bvh_cache_l[t], call[t].type).is_filled

\* the read of is_filled at line 84
SlotFilled(t) == Slot(bvh_cache_l[t], call[t].type).is_filled

\* a lock that excludes nobody
MutexFree_Always(c) == TRUE

\* BLI_mutex_lock returns once no thread holds the mutex
MutexFree(c) == caches[c].mutex = NULL

\* line 71: if (*bvh_cache_p == nullptr); without a lock request the call
\* returns false (to line 91 of the outer call), with one it goes on to the
\* lazy initialization
FindNull(t) ==
  /\ pc[t] = "find_null"
  /\ UNCHANGED <<workload, mesh, search, nearest, cast, hit, has_tree>>
  /\ IF CacheIsNull(t)
     THEN IF do_lock(t)
          THEN /\ pc' = [pc EXCEPT ![t] = "init_lock"]
               /\ ev' = [ev EXCEPT ![t].saw_null = TRUE]
               /\ UNCHANGED <<frame, data, lock_started, asserts, calls, returned,
                              allocs, built>>
          ELSE IF frame[t] = "inner"
               THEN /\ frame' = [frame EXCEPT ![t] = "outer"]
                    /\ ReturnMiss(t, TRUE, ev[t])
                    /\ UNCHANGED calls
               ELSE /\ ReturnFind(t, FALSE, NULL)
                    /\ UNCHANGED calls
     ELSE /\ pc' = [pc EXCEPT ![t] = "find_load"]
          /\ UNCHANGED <<frame, data, lock_started, history>>
  /\ UNCHANGED <<shared, call, bvh_cache_l>>

\* line 77: std::lock_guard lock{*mesh_eval_mutex}
InitLock(t) ==
  /\ pc[t] = "init_lock"
  /\ UNCHANGED <<workload, mesh, search, nearest, cast, hit, has_tree>>
  /\ eval_mutex[call[t].s] = NULL
  /\ eval_mutex' = [eval_mutex EXCEPT ![call[t].s] = t]
  /\ pc' = [pc EXCEPT ![t] = "init_body"]
  /\ ev' = [ev EXCEPT ![t].init_locks = @ + 1]
  /\ UNCHANGED <<bvh_cache, caches, trees, call, frame, data, lock_started,
                 bvh_cache_l, asserts, calls, returned, allocs, built>>

\* lines 78-80: the second check under the eval mutex, and the allocation
InitBody(t) ==
  /\ pc[t] = "init_body"
  /\ UNCHANGED <<workload, mesh, search, nearest, cast, hit, has_tree>>
  /\ IF CacheStillNull(t)
     THEN /\ caches' = Append(caches, bvhcache_init)
          /\ bvh_cache' = [bvh_cache EXCEPT ![call[t].s] = Len(caches) + 1]
          /\ allocs' = [allocs EXCEPT ![call[t].s] = @ + 1]
     ELSE UNCHANGED <<caches, bvh_cache, allocs>>
  /\ pc' = [pc EXCEPT ![t] = "init_unlock"]
  /\ UNCHANGED <<eval_mutex, trees, call, frame, data, lock_started,
                 bvh_cache_l, asserts, calls, ev, returned, built>>

\* a lock_guard that lives to the end of bvhcache_find
InitUnlock_Keep(t) ==
  /\ pc[t] = "init_unlock"
  /\ UNCHANGED <<workload, mesh, search, nearest, cast, hit, has_tree>>
  /\ pc' = [pc EXCEPT ![t] = "find_load"]
  /\ UNCHANGED <<bvh_cache, eval_mutex, caches, trees, call, frame, data, lock_started,
                 bvh_cache_l, history>>

\* line 81: the lock_guard goes out of scope
InitUnlock(t) ==
  /\ pc[t] = "init_unlock"
  /\ UNCHANGED <<workload, mesh, search, nearest, cast, hit, has_tree>>
  /\ eval_mutex' = [eval_mutex EXCEPT ![call[t].s] = NULL]
  /\ pc' = [pc EXCEPT ![t] = "find_load"]
  /\ UNCHANGED <<bvh_cache, caches, trees, call, frame, data, lock_started,
                 bvh_cache_l, history>>

\* line 82: BVHCache *bvh_cache = *bvh_cache_p
FindLoad(t) ==
  /\ pc[t] = "find_load"
  /\ UNCHANGED <<workload, mesh, search, nearest, cast, hit, has_tree>>
  /\ bvh_cache_l' = [bvh_cache_l EXCEPT ![t] = bvh_cache[call[t].s]]
  /\ pc' = [pc EXCEPT ![t] = "find_filled"]
  /\ UNCHANGED <<shared, call, frame, data, lock_started, history>>

\* line 84: if (bvh_cache->items[type].is_filled), and on an empty slot
\* line 88: if (do_lock); the recursive call returns false to line 91
FindFilled(t) ==
  /\ pc[t] = "find_filled"
  /\ UNCHANGED <<workload, mesh, search, nearest, cast, hit, has_tree>>
  /\ LET filled == SlotFilled(t)
         seen == IF Slot(bvh_cache_l[t], call[t].type).is_filled
                 THEN "filled" ELSE "empty"
         e == CASE frame[t] = "outer" -> [ev[t] EXCEPT !.first_read = seen]
                [] frame[t] = "inner" -> [ev[t] EXCEPT !.recheck = seen]
                [] OTHER -> ev[t]
     IN IF filled \/ do_lock(t)
        THEN /\ pc' = [pc EXCEPT ![t] = IF filled THEN "find_tree" ELSE "lock"]
             /\ ev' = [ev EXCEPT ![t] = e]
             /\ UNCHANGED <<frame, data, lock_started, asserts, returned, allocs, built>>
        ELSE IF frame[t] = "inner"
             THEN /\ frame' = [frame EXCEPT ![t] = "outer"]
                  /\ ReturnMiss(t, TRUE, e)
             ELSE ReturnFind(t, FALSE, NULL)
  /\ UNCHANGED <<shared, call, bvh_cache_l, calls>>

\* lines 85-86: *r_tree = bvh_cache->items[type].tree; return true, to the
\* entry point or to line 91 of the outer call
FindTree(t) ==
  /\ pc[t] = "find_tree"
  /\ UNCHANGED <<workload, mesh, search, nearest, cast, hit, has_tree>>
  /\ LET tree == Slot(bvh_cache_l[t], call[t].type).tree
     IN IF do_lock(t)
        THEN /\ ReturnHit(t, tree, ev[t])
             /\ UNCHANGED frame
        ELSE IF frame[t] = "inner"
             THEN /\ data' = [data EXCEPT ![t].tree = tree]
                  /\ pc' = [pc EXCEPT ![t] = "hit_unlock"]
                  /\ frame' = [frame EXCEPT ![t] = "outer"]
                  /\ UNCHANGED <<lock_started, asserts, ev, returned, allocs, built>>
             ELSE ReturnFind(t, TRUE, tree)
  /\ UNCHANGED <<shared, call, bvh_cache_l, calls>>

\* lines 89-90: BLI_mutex_lock(&bvh_cache->mutex), then the recursive call
\* bvhcache_find(bvh_cache_p, type, r_tree, nullptr, nullptr)
Lock(t) ==
  /\ pc[t] = "lock"
  /\ UNCHANGED <<workload, mesh, search, nearest, cast, hit, has_tree>>
  /\ MutexFree(bvh_cache_l[t])
  /\ caches' = [caches EXCEPT ![bvh_cache_l[t]].mutex = t]
  /\ frame' = [frame EXCEPT ![t] = "inner"]
  /\ pc' = [pc EXCEPT ![t] = "find_null"]
  /\ ev' = [ev EXCEPT ![t].locks = @ + 1]
  /\ UNCHANGED <<bvh_cache, eval_mutex, trees, call, data, lock_started,
                 bvh_cache_l, asserts, calls, returned, allocs, built>>

\* a find that returns its late hit with the mutex still held
UnlockAfterHit_Forget(cs, c) == cs

\* line 92: BLI_mutex_unlock(&bvh_cache->mutex)
UnlockAfterHit(cs, c) == [cs EXCEPT ![c].mutex = NULL]

\* lines 91-93: in_cache: BLI_mutex_unlock(&bvh_cache->mutex); return true
HitUnlock(t) ==
  /\ pc[t] = "hit_unlock"
  /\ UNCHANGED <<workload, mesh, search, nearest, cast, hit, has_tree>>
  /\ caches' = UnlockAfterHit(caches, bvh_cache_l[t])
  /\ ReturnHit(t, data[t].tree,
               [ev[t] EXCEPT !.find_unlocks = @ + 1,
                             !.foreign_unlock = @ \/ caches[bvh_cache_l[t]].mutex # t])
  /\ UNCHANGED <<bvh_cache, eval_mutex, trees, call, frame, bvh_cache_l, calls>>

(* ---------------------------- acquisition ------------------------------ *)

\* the plan of the build switch of the entry point of thread t
Plan(t) ==
  IF call[t].api = "mesh" THEN MeshGetPlan(MeshOf(call[t].s), call[t].type)
  ELSE EditmeshGetPlan(MeshOf(call[t].s), call[t].type)

\* BLI_bvhtree_new followed by the insertion loop of a builder
NewTree(plan, c) ==
  [maxsize |-> plan.maxsize, prims |-> plan.prims, balanced |-> 0,
   isolated |-> FALSE, freed |-> 0, for |-> c]

\* lines 1245-1297 (1342-1362): the switch that runs a builder.  A builder
\* that gets as far as BLI_bvhtree_new returns nullptr when that fails; a
\* type without a builder leaves data->tree as it is.
Create(t) ==
  /\ pc[t] = "create"
  /\ UNCHANGED <<workload, mesh, search, nearest, cast, hit, has_tree>>
  /\ LET plan == Plan(t)
     IN /\ \/ /\ ~plan.early
              /\ asserts' = asserts \cup PlanAsserts(plan, TRUE)
              /\ trees' = Append(trees, NewTree(plan, call[t]))
              /\ data' = [data EXCEPT ![t].tree = Len(trees) + 1]
              /\ ev' = [ev EXCEPT ![t].builds = @ + 1,
                                  ![t].inserted = @ + Len(plan.prims)]
           \/ /\ UNCHANGED trees
              /\ asserts' = asserts \cup PlanAsserts(plan, FALSE)
              /\ data' = [data EXCEPT ![t].tree =
                            IF "unsupported_type" \in plan.asserts THEN @ ELSE NULL]
              /\ ev' = [ev EXCEPT ![t].builds = @ + 1]
  /\ built' = IF call[t].with_cache
              THEN [built EXCEPT ![call[t].s][call[t].type] = @ + 1] ELSE built
  /\ pc' = [pc EXCEPT ![t] = "balance"]
  /\ UNCHANGED <<bvh_cache, eval_mutex, caches, call, frame, lock_started,
                 bvh_cache_l, calls, returned, allocs>>

\* a balance that leaves the tree as the builder left it
bvhtree_balance_Skip(tr, tree, isolate) == tr

\* a balance that always runs as an isolated task
bvhtree_balance_Isolated(tr, tree, isolate) ==
  IF tree = NULL THEN tr
  ELSE [tr EXCEPT ![tree].balanced = @ + 1, ![tree].isolated = TRUE]

\* bvhtree_balance(tree, isolate): nothing for a null tree, otherwise
\* BLI_bvhtree_balance, inside BLI_task_isolate when isolate is set
bvhtree_balance(tr, tree, isolate) ==
  IF tree = NULL THEN tr
  ELSE [tr EXCEPT ![tree].balanced = @ + 1, ![tree].isolated = isolate]

\* line 1299 (1364): bvhtree_balance(data->tree, lock_started); the
\* edit-mesh entry point without a cache reference then returns
Balance(t) ==
  /\ pc[t] = "balance"
  /\ UNCHANGED <<workload, mesh, search, nearest, cast, hit, has_tree>>
  /\ trees' = bvhtree_balance(trees, data[t].tree, lock_started[t])
  /\ LET e == IF trees' = trees THEN ev[t] ELSE [ev[t] EXCEPT !.balances = @ + 1]
     IN IF call[t].with_cache
        THEN /\ pc' = [pc EXCEPT ![t] = "insert_tree"]
             /\ ev' = [ev EXCEPT ![t] = e]
             /\ UNCHANGED <<data, returned, allocs, built>>
        ELSE Return(t, data[t], e)
  /\ UNCHANGED <<bvh_cache, eval_mutex, caches, call, frame, lock_started,
                 bvh_cache_l, asserts, calls>>

\* an entry point that forgets the flag
MarkCached_Forget(d) == d

\* line 1304 (1370): data->cached = true
MarkCached(d) == [d EXCEPT !.cached = TRUE]

\* an insert that sets is_filled first and leaves the tree for later
InsertTree_FlagFirst(t) ==
  /\ pc[t] = "insert_tree"
  /\ UNCHANGED <<workload, mesh, search, nearest, cast, hit, has_tree>>
  /\ LET c == bvh_cache[call[t].s]
     IN /\ bvh_cache_l' = [bvh_cache_l EXCEPT ![t] = c]
        /\ asserts' = asserts
             \cup (IF data[t].cached THEN {"cached_before_insert"} ELSE {})
             \cup (IF Slot(c, call[t].type).is_filled THEN {"insert_filled_slot"} ELSE {})
        /\ caches' = [caches EXCEPT ![c].items[call[t].type].is_filled = TRUE]
  /\ data' = [data EXCEPT ![t] = MarkCached(@)]
  /\ ev' = [ev EXCEPT ![t].slot_writes = @ + 1]
  /\ pc' = [pc EXCEPT ![t] = "insert_filled"]
  /\ UNCHANGED <<bvh_cache, eval_mutex, trees, call, frame, lock_started,
                 calls, returned, allocs, built>>

\* lines 1303-1305 (1369-1371): BLI_assert(data->cached == false);
\* data->cached = true; bvhcache_insert(*bvh_cache_p, data->tree, type) as
\* far as line 139: BLI_assert(!item->is_filled); item->tree = tree
InsertTree(t) ==
  /\ pc[t] = "insert_tree"
  /\ UNCHANGED <<workload, mesh, search, nearest, cast, hit, has_tree>>
  /\ LET c == bvh_cache[call[t].s]
     IN /\ bvh_cache_l' = [bvh_cache_l EXCEPT ![t] = c]
        /\ asserts' = asserts
             \cup (IF data[t].cached THEN {"cached_before_insert"} ELSE {})
             \cup (IF Slot(c, call[t].type).is_filled THEN {"insert_filled_slot"} ELSE {})
        /\ caches' = [caches EXCEPT ![c].items[call[t].type].tree = data[t].tree]
  /\ data' = [data EXCEPT ![t] = MarkCached(@)]
  /\ ev' = [ev EXCEPT ![t].slot_writes = @ + 1]
  /\ pc' = [pc EXCEPT ![t] = "insert_filled"]
  /\ UNCHANGED <<bvh_cache, eval_mutex, trees, call, frame, lock_started,
                 calls, returned, allocs, built>>

\* an insert that marks every slot of the cache
Publish_Every(cs, c, type) ==
  [cs EXCEPT ![c].items = [ty \in BVHCacheType |-> [@[ty] EXCEPT !.is_filled = TRUE]]]

\* an insert that marks only a present tree
Publish_OnlyPresent(cs, c, type) ==
  [cs EXCEPT ![c].items[type].is_filled = (cs[c].items[type].tree # NULL)]

\* an insert that never marks the slot
Publish_Forget(cs, c, type) == cs

\* bvhcache_insert, line 140: item->is_filled = true
Publish(cs, c, type) == [cs EXCEPT ![c].items[type].is_filled = TRUE]

\* bvhcache_insert, line 140
InsertFilled(t) ==
  /\ pc[t] = "insert_filled"
  /\ UNCHANGED <<workload, mesh, search, nearest, cast, hit, has_tree>>
  /\ caches' = Publish(caches, bvh_cache_l[t], call[t].type)
  /\ ev' = [ev EXCEPT ![t].slot_writes = @ + 1]
  /\ pc' = [pc EXCEPT ![t] = "unlock"]
  /\ UNCHANGED <<bvh_cache, eval_mutex, trees, call, frame, data, lock_started,
                 bvh_cache_l, asserts, calls, returned, allocs, built>>

\* an unlock that forgets the mutex
bvhcache_unlock_Never(cs, c, locked) == cs

\* bvhcache_unlock(bvh_cache, lock_started): BLI_mutex_unlock iff lock_started
bvhcache_unlock(cs, c, locked) ==
  IF locked THEN [cs EXCEPT ![c].mutex = NULL] ELSE cs

\* line 1306 (1372): bvhcache_unlock(*bvh_cache_p, lock_started), and the
\* return of data->tree
Unlock(t) ==
  /\ pc[t] = "unlock"
  /\ UNCHANGED <<workload, mesh, search, nearest, cast, hit, has_tree>>
  /\ LET c == bvh_cache[call[t].s]
         cs == bvhcache_unlock(caches, c, lock_started[t])
         released == cs # caches
     IN /\ caches' = cs
        /\ Return(t, data[t],
                  [ev[t] EXCEPT !.unlocks = IF released THEN @ + 1 ELSE @,
                                !.foreign_unlock = @ \/ (released /\ caches[c].mutex # t)])
  /\ UNCHANGED <<bvh_cache, eval_mutex, trees, call, frame, lock_started,
                 bvh_cache_l, asserts, calls>>

(* ---------------------------- uncached builders ------------------------ *)

\* the bvhtree_from_*_ex functions, by the builder each one runs
ExBuilders ==
  {"mesh_verts", "mesh_edges", "mesh_looptri",
   "editmesh_verts", "editmesh_edges", "editmesh_looptri"}

\* the number of candidates of an _ex function on mesh m
ExNum(m, fn) ==
  CASE fn = "mesh_verts" -> m.totvert
    [] fn = "mesh_edges" -> Len(m.edges)
    [] fn = "mesh_looptri" -> LooptriLen(m)
    [] fn = "editmesh_verts" -> m.em_totvert
    [] fn = "editmesh_edges" -> m.em_totedge
    [] OTHER -> m.em_tottri

\* the type an _ex function hands to the setup function
ExType(fn) ==
  CASE fn = "mesh_verts" -> "VERTS"
    [] fn = "mesh_edges" -> "EDGES"
    [] fn = "mesh_looptri" -> "LOOPTRI"
    [] fn = "editmesh_verts" -> "EM_VERTS"
    [] fn = "editmesh_edges" -> "EM_EDGES"
    [] OTHER -> "EM_LOOPTRI"

ExApi(fn) == IF fn \in {"mesh_verts", "mesh_edges", "mesh_looptri"} THEN "mesh" ELSE "editmesh"

\* the *_create_tree call of an _ex function
ExPlan(m, fn, mask, num_active) ==
  CASE fn = "mesh_verts" -> bvhtree_from_mesh_verts_create_tree(m.totvert, mask, num_active)
    [] fn = "mesh_edges" -> bvhtree_from_mesh_edges_create_tree(Len(m.edges), mask, num_active)
    [] fn = "mesh_looptri" ->
         bvhtree_from_mesh_looptri_create_tree(LooptriLen(m), mask, num_active)
    [] fn = "editmesh_verts" ->
         bvhtree_from_editmesh_verts_create_tree(m.em_totvert, mask, num_active)
    [] fn = "editmesh_edges" ->
         bvhtree_from_editmesh_edges_create_tree(m.em_totedge, mask, num_active)
    [] OTHER -> bvhtree_from_editmesh_looptri_create_tree(m.em_tottri, mask, num_active)

\* the masks a caller passes for n candidates, each with its number of set
\* bits: no mask (and -1), no bit set, the first bit set
ExMasks(n) ==
  {[mask |-> << >>, count |-> -1]}
    \cup (IF n = 0 THEN {}
          ELSE {[mask |-> [i \in 1..n |-> FALSE], count |-> 0],
                [mask |-> [i \in 1..n |-> i = 1], count |-> 1]})

\* what a caller passes for n candidates: no mask with any count (-1, 0 or
\* a count above n), or any mask over the candidates with the number of
\* its set bits or with one more than that (which is above n when every
\* bit is set)
AllMasks(n) ==
  {[mask |-> << >>, count |-> k] : k \in {-1, 0, n + 1}}
    \cup {[mask |-> mk, count |-> Cardinality({i \in 1..n : mk[i]}) + d] :
            mk \in [1..n -> BOOLEAN], d \in {0, 1}}

\* the geometry and masks the caller of an _ex function passes: in the
\* workload "masks" arrays of any size up to MaxElems with any mask, else
\* the arrays of a surface with one of three masks
ExInputs(w, fn) ==
  IF w = "masks"
  THEN UNION {{[s |-> 1, m |-> MeshOfSize(n), mk |-> mk] : mk \in AllMasks(n)} :
                n \in 0..MaxElems}
  ELSE UNION {{[s |-> s, m |-> MeshOf(s), mk |-> mk] : mk \in ExMasks(ExNum(MeshOf(s), fn))} :
                s \in Surfaces}

\* bvhtree_from_mesh_verts_ex and its five siblings, called with a bundle:
\* the builder, bvhtree_balance(tree, false), the setup of the bundle
BuildEx(t) ==
  /\ pc[t] = "idle"
  /\ UNCHANGED <<workload, mesh, search, nearest, cast, hit, has_tree>>
  /\ workload \in {"uncached", "masks"}
  /\ workload = "masks" => calls = 0
  /\ t \in CallThreads(workload)
  /\ calls < CallLimit(workload)
  /\ \E fn \in ExBuilders :
       \E x \in ExInputs(workload, fn) :
         LET s == x.s
             mk == x.mk
             c == [fn |-> "ex", api |-> ExApi(fn), type |-> ExType(fn),
                   with_cache |-> FALSE, s |-> s, num |-> ExNum(x.m, fn),
                   mask |-> mk.mask,
                   count |-> mk.count]
             plan == ExPlan(x.m, fn, mk.mask, mk.count)
         IN /\ call' = [call EXCEPT ![t] = c]
            /\ \/ /\ ~plan.early
                  /\ asserts' = asserts \cup PlanAsserts(plan, TRUE)
                  /\ trees' = bvhtree_balance(Append(trees, NewTree(plan, c)),
                                              Len(trees) + 1, FALSE)
                  /\ data' = [data EXCEPT ![t] = ExSetupData(fn, Len(trees) + 1, s)]
                  /\ ev' = [ev EXCEPT ![t] =
                              [NoEvents EXCEPT !.builds = 1, !.inserted = Len(plan.prims),
                                               !.balances = 1, !.done = TRUE,
                                               !.ret = Len(trees) + 1]]
                  /\ returned' = returned \cup
                                   {[call |-> c, tree |-> Len(trees) + 1, cached |-> FALSE]}
               \/ /\ UNCHANGED trees
                  /\ asserts' = asserts \cup PlanAsserts(plan, FALSE)
                  /\ data' = [data EXCEPT ![t] = ExSetupData(fn, NULL, s)]
                  /\ ev' = [ev EXCEPT ![t] = [NoEvents EXCEPT !.builds = 1, !.done = TRUE]]
                  /\ returned' = returned \cup
                                   {[call |-> c, tree |-> NULL, cached |-> FALSE]}
  /\ calls' = calls + 1
  /\ UNCHANGED <<bvh_cache, eval_mutex, caches, pc, frame, lock_started, bvh_cache_l,
                 allocs, built>>

\* the sizes of the point clouds a caller has
PointCounts == 0..2

\* BKE_bvhtree_from_pointcloud_get, called with a zeroed bundle:
\* BLI_bvhtree_new(totpoint), which may fail, one insertion per point,
\* bvhtree_balance(tree, false), and the bundle's tree and nearest callback
\* set
PointCloudGet(t) ==
  /\ pc[t] = "idle"
  /\ UNCHANGED <<workload, mesh, search, nearest, cast, hit, has_tree>>
  /\ workload = "uncached"
  /\ t \in CallThreads(workload)
  /\ calls < CallLimit(workload)
  /\ \E totpoint \in PointCounts :
       LET c == [fn |-> "pointcloud", api |-> "pointcloud", type |-> "POINTS",
                 with_cache |-> FALSE, s |-> 1, num |-> totpoint, mask |-> << >>, count |-> -1]
           plan == BuildPlan(FALSE, totpoint, Kept(totpoint, << >>, 0), TRUE, TRUE)
       IN /\ call' = [call EXCEPT ![t] = c]
          /\ \/ /\ asserts' = asserts \cup PlanAsserts(plan, TRUE)
                /\ trees' = bvhtree_balance(Append(trees, NewTree(plan, c)),
                                            Len(trees) + 1, FALSE)
                /\ data' = [data EXCEPT ![t] = [ZeroData EXCEPT !.tree = Len(trees) + 1,
                                                              !.nearest_callback = "nullptr"]]
                /\ ev' = [ev EXCEPT ![t] =
                            [NoEvents EXCEPT !.builds = 1, !.inserted = Len(plan.prims),
                                             !.balances = 1, !.done = TRUE,
                                             !.ret = Len(trees) + 1]]
                /\ returned' = returned \cup
                                 {[call |-> c, tree |-> Len(trees) + 1, cached |-> FALSE]}
             \/ /\ UNCHANGED trees
                /\ asserts' = asserts \cup PlanAsserts(plan, FALSE)
                /\ data' = [data EXCEPT ![t] = ZeroData]
                /\ ev' = [ev EXCEPT ![t] = [NoEvents EXCEPT !.builds = 1, !.done = TRUE]]
                /\ returned' = returned \cup
                                 {[call |-> c, tree |-> NULL, cached |-> FALSE]}
  /\ calls' = calls + 1
  /\ UNCHANGED <<bvh_cache, eval_mutex, caches, pc, frame, lock_started, bvh_cache_l,
                 allocs, built>>

(* ---------------------------- release ---------------------------------- *)

\* BLI_bvhtree_free(tree)
BLI_bvhtree_free(tr, tree) ==
  IF tree = NULL THEN tr ELSE [tr EXCEPT ![tree].freed = @ + 1]

\* a release that frees the tree and leaves the bundle as it is
free_bvhtree_from_mesh_NoZero(tr, d) ==
  [trees |-> IF d.tree # NULL /\ ~d.cached THEN BLI_bvhtree_free(tr, d.tree) ELSE tr,
   data |-> d]

\* a release that frees whatever the bundle holds
free_bvhtree_from_mesh_Always(tr, d) ==
  [trees |-> BLI_bvhtree_free(tr, d.tree), data |-> ZeroData]

\* free_bvhtree_from_mesh: frees a present tree that is not cached, and
\* zeroes the bundle in every case
free_bvhtree_from_mesh(tr, d) ==
  [trees |-> IF d.tree # NULL /\ ~d.cached THEN BLI_bvhtree_free(tr, d.tree) ELSE tr,
   data |-> ZeroData]

\* free_bvhtree_from_editmesh: only a bundle with a present tree is touched
free_bvhtree_from_editmesh(tr, d) ==
  IF d.tree # NULL
  THEN [trees |-> IF ~d.cached THEN BLI_bvhtree_free(tr, d.tree) ELSE tr,
        data |-> ZeroData]
  ELSE [trees |-> tr, data |-> d]

\* free_bvhtree_from_pointcloud: frees a present tree and zeroes the bundle
free_bvhtree_from_pointcloud(tr, d) ==
  [trees |-> BLI_bvhtree_free(tr, d.tree), data |-> ZeroData]

\* the free function of the bundle type of an entry point or builder
FreeBundle(api, tr, d) ==
  CASE api = "mesh" -> free_bvhtree_from_mesh(tr, d)
    [] api = "editmesh" -> free_bvhtree_from_editmesh(tr, d)
    [] OTHER -> free_bvhtree_from_pointcloud(tr, d)

\* the caller releases the bundle its last call returned
Release(t) ==
  /\ pc[t] = "idle"
  /\ UNCHANGED <<workload, mesh, search, nearest, cast, hit, has_tree>>
  /\ ev[t].done
  /\ call[t].fn # "find"
  /\ LET r == FreeBundle(call[t].api, trees, data[t])
     IN /\ trees' = r.trees
        /\ data' = [data EXCEPT ![t] = r.data]
  /\ UNCHANGED <<bvh_cache, eval_mutex, caches, pc, call, frame, lock_started,
                 bvh_cache_l, history>>

(* ---------------------------- teardown --------------------------------- *)

RECURSIVE FreeSlots(_, _, _)
\* the loop of bvhcache_free over the slots in `todo`:
\* BLI_bvhtree_free(item->tree)
FreeSlots(tr, items, todo) ==
  IF todo = {} THEN tr
  ELSE LET ty == CHOOSE x \in todo : TRUE
       IN FreeSlots(BLI_bvhtree_free(tr, items[ty].tree), items, todo \ {ty})

\* a teardown that frees the cache object only
bvhcache_free_Leaks(tr, cs, c) ==
  [trees |-> tr,
   caches |-> [cs EXCEPT ![c].items = [ty \in BVHCacheType |-> [@[ty] EXCEPT !.tree = NULL]],
                         ![c].freed = @ + 1]]

\* bvhcache_free: every slot's tree is freed and its handle cleared, then
\* the mutex is ended and the cache freed
bvhcache_free(tr, cs, c) ==
  [trees |-> FreeSlots(tr, cs[c].items, BVHCacheType),
   caches |-> [cs EXCEPT ![c].items = [ty \in BVHCacheType |-> [@[ty] EXCEPT !.tree = NULL]],
                         ![c].freed = @ + 1]]

\* The owner of a surface destroys its cache.  The owner does so when no
\* acquisition is running, and starts none on the surface afterwards.
Destroy(t) ==
  /\ pc[t] = "idle"
  /\ UNCHANGED <<workload, mesh, search, nearest, cast, hit, has_tree>>
  /\ workload = "single"
  /\ t \in CallThreads(workload)
  /\ \A u \in Threads : pc[u] = "idle"
  /\ \E s \in Surfaces :
       /\ bvh_cache[s] # NULL
       /\ Alive(s)
       /\ LET r == bvhcache_free(trees, caches, bvh_cache[s])
          IN /\ trees' = r.trees
             /\ caches' = r.caches
  /\ UNCHANGED <<bvh_cache, eval_mutex, locals, history>>

(* ---------------------------- bvhcache_has_tree ------------------------ *)

\* a membership test that looks at filled slots only
bvhcache_has_tree_FilledOnly(cs, cache, tree) ==
  IF cache = NULL THEN FALSE
  ELSE \E ty \in BVHCacheType : cs[cache].items[ty].is_filled /\ cs[cache].items[ty].tree = tree

\* bvhcache_has_tree: false for a null cache, otherwise whether some slot
\* holds the tree; is_filled is not read
bvhcache_has_tree(cs, cache, tree) ==
  IF cache = NULL THEN FALSE
  ELSE \E ty \in BVHCacheType : cs[cache].items[ty].tree = tree

\* A thread other than the callers asks whether the cache of a surface
\* holds a tree or the null pointer, while the calls of the workload "find"
\* are running; a query counts as a call.
HasTree(t) ==
  /\ workload = "find"
  /\ t \notin CallThreads(workload)
  /\ calls < CallLimit(workload)
  /\ \E s \in Surfaces : \E tree \in {NULL} \cup (1..Len(trees)) :
       /\ Alive(s)
       /\ has_tree' = [n |-> has_tree.n + 1, bvh_cache |-> bvh_cache[s], tree |-> tree,
                       result |-> bvhcache_has_tree(caches, bvh_cache[s], tree)]
  /\ calls' = calls + 1
  /\ UNCHANGED <<workload, mesh, search, nearest, cast, hit, shared, locals,
                 asserts, ev, returned, allocs, built>>

(* ---------------------------- nearest-point search --------------------- *)

\* The tree search calls the nearest callback of the bundle on a primitive
\* of the tree, in any order and any number of times up to MaxQueries.
NearestPoint(t) ==
  /\ workload = "nearest"
  /\ t \in CallThreads(workload)
  /\ Len(search.called) < MaxQueries
  /\ \E index \in 0..1 :
       /\ nearest' = NearestCallback(search.callback, nearest, index, search.dists[index + 1])
       /\ search' = [search EXCEPT !.called = Append(@, index)]
  /\ UNCHANGED <<workload, mesh, cast, hit, has_tree, shared, locals, history>>

(* ---------------------------- ray cast --------------------------------- *)

\* The tree traversal calls the ray-cast callback of the bundle on a
\* primitive of the tree, in any order and any number of times up to
\* MaxQueries.
RayCast(t) ==
  /\ workload = "raycast"
  /\ t \in CallThreads(workload)
  /\ Len(cast.called) < MaxQueries
  /\ \E index \in 0..1 :
       /\ hit' = RaycastCallback(cast.callback, hit, index, cast.ray, cast.prims[index + 1])
       /\ cast' = [cast EXCEPT !.called = Append(@, index)]
  /\ UNCHANGED <<workload, mesh, search, nearest, has_tree, shared, locals, history>>

(* ---------------------------- specification ---------------------------- *)

Step(t) ==
  \/ Call(t)
  \/ FindDirect(t)
  \/ FindNull(t)
  \/ InitLock(t)
  \/ InitBody(t)
  \/ InitUnlock(t)
  \/ FindLoad(t)
  \/ FindFilled(t)
  \/ FindTree(t)
  \/ Lock(t)
  \/ HitUnlock(t)
  \/ Create(t)
  \/ Balance(t)
  \/ InsertTree(t)
  \/ InsertFilled(t)
  \/ Unlock(t)
  \/ BuildEx(t)
  \/ PointCloudGet(t)
  \/ Release(t)
  \/ Destroy(t)
  \/ NearestPoint(t)
  \/ RayCast(t)
  \/ HasTree(t)

Next == \E t \in Threads : Step(t)

Spec == Init /\ [][Next]_vars

(* ---------------------------- a build that never ends ------------------ *)

\* The same program with one builder that never returns: the build of the
\* edit-mesh triangles for a cache.  A thread that reaches it stays in it,
\* holding the mutex of the cache.  Two threads make the calls of the
\* workload "mixed"; every thread that can take a step eventually takes one.
Stuck(t) == pc[t] = "create" /\ call[t].with_cache /\ call[t].type = "EM_LOOPTRI"

InitStuck == Init /\ workload = "mixed"

CreateUnlessStuck(t) == ~Stuck(t) /\ Create(t)

StepStuck(t) ==
  \/ Call(t)
  \/ FindNull(t)
  \/ InitLock(t)
  \/ InitBody(t)
  \/ InitUnlock(t)
  \/ FindLoad(t)
  \/ FindFilled(t)
  \/ FindTree(t)
  \/ Lock(t)
  \/ HitUnlock(t)
  \/ CreateUnlessStuck(t)
  \/ Balance(t)
  \/ InsertTree(t)
  \/ InsertFilled(t)
  \/ Unlock(t)
  \/ Release(t)

NextStuck == \E t \in Threads : StepStuck(t)

SpecStuck == InitStuck /\ [][NextStuck]_vars /\ \A t \in Threads : WF_vars(StepStuck(t))

(* ---------------------------- fair scheduling -------------------------- *)

\* The program with every build returning, threads calling concurrently
\* (the workloads "mixed" and "race"), and every thread that can take a step
\* eventually taking one.  BLI_mutex_lock returns when the mutex is free;
\* the calls of a workload are finitely many, so a waiting thread is not
\* overtaken forever.
InitFair == Init /\ workload \in {"mixed", "race"}

StepFair(t) ==
  \/ Call(t)
  \/ FindNull(t)
  \/ InitLock(t)
  \/ InitBody(t)
  \/ InitUnlock(t)
  \/ FindLoad(t)
  \/ FindFilled(t)
  \/ FindTree(t)
  \/ Lock(t)
  \/ HitUnlock(t)
  \/ Create(t)
  \/ Balance(t)
  \/ InsertTree(t)
  \/ InsertFilled(t)
  \/ Unlock(t)
  \/ Release(t)

NextFair == \E t \in Threads : StepFair(t)

SpecFair == InitFair /\ [][NextFair]_vars /\ \A t \in Threads : WF_vars(StepFair(t))

(* ---------------------------- properties ------------------------------- *)

\* the calls that went through the cache of their surface
CachedCalls == {r \in returned : r.call.with_cache}

\* thread t is in a call through a cache, past line 82
UsesCache(t) ==
  /\ call[t].with_cache
  /\ \/ pc[t] \in {"find_filled", "find_tree", "lock", "hit_unlock", "insert_filled"}
     \/ pc[t] \in {"find_null", "find_load"} /\ frame[t] = "inner"

\* C1 (slot exclusivity): for every surface and type the build switch runs
\* at most once for the slot, at most one tree is ever built for it, every
\* call through the cache that has returned was preceded by exactly one
\* such build, and all calls for the slot return the same handle.
C1_SlotExclusivity ==
  /\ \A s \in Surfaces, ty \in BVHCacheType : built[s][ty] <= 1
  /\ \A h1, h2 \in 1..Len(trees) :
       (/\ trees[h1].for.with_cache
        /\ trees[h2].for.with_cache
        /\ trees[h1].for.s = trees[h2].for.s
        /\ trees[h1].for.type = trees[h2].for.type) => h1 = h2
  /\ \A r \in CachedCalls : built[r.call.s][r.call.type] = 1
  /\ \A r1, r2 \in CachedCalls :
       (r1.call.s = r2.call.s /\ r1.call.type = r2.call.type) => r1.tree = r2.tree

\* three calls for the same slot, each begun before any of them returned,
\* have all returned the tree
C1_Witness ==
  /\ workload = "race"
  /\ \A t \in Threads : ev[t].done /\ ~ev[t].again /\ ev[t].ret # NULL

\* C2 (one-shot slots): the assertion of bvhcache_insert never fails, and
\* until the cache is destroyed a filled slot stays filled with the same
\* tree.
C2_OneShotSlots ==
  /\ []("insert_filled_slot" \notin asserts)
  /\ [][\A c \in 1..Len(caches) : \A ty \in BVHCacheType :
          (caches[c].items[ty].is_filled /\ caches'[c].freed = 0) =>
            /\ caches'[c].items[ty].is_filled
            /\ caches'[c].items[ty].tree = caches[c].items[ty].tree]_vars

\* a thread that came to fill a slot found it filled under the mutex and
\* returned the tree stored there
C2_Witness ==
  \E t \in Threads :
    /\ ev[t].done
    /\ ev[t].recheck = "filled"
    /\ ev[t].ret # NULL
    /\ Slot(bvh_cache[call[t].s], call[t].type).tree = ev[t].ret

\* C3 (single cache allocation): at most one BVHCache is allocated for a
\* surface, every thread in bvhcache_find or bvhcache_insert works on the
\* cache the surface refers to, and the reference, once set, never changes.
C3_SingleCacheAllocation ==
  /\ [](\A s \in Surfaces :
          allocs[s] <= 1 /\ (bvh_cache[s] # NULL <=> allocs[s] = 1))
  /\ [](\A t \in Threads : UsesCache(t) => bvh_cache_l[t] = bvh_cache[call[t].s])
  /\ [][\A s \in Surfaces : bvh_cache[s] # NULL => bvh_cache'[s] = bvh_cache[s]]_vars

\* two threads both found the reference null and took the eval mutex, and
\* one cache was allocated
C3_Witness ==
  \E t1, t2 \in Threads :
    /\ t1 # t2
    /\ call[t1].s = call[t2].s
    /\ ev[t1].done /\ ev[t1].saw_null /\ ev[t1].init_locks = 1
    /\ ev[t2].done /\ ev[t2].saw_null /\ ev[t2].init_locks = 1
    /\ allocs[call[t1].s] = 1

\* C4 (lock release): a call releases the cache mutex only while it holds
\* it; bvhcache_unlock releases it exactly once when bvhcache_find left it
\* held and not at all otherwise; no thread holds a cache mutex once its
\* call has returned.
C4_LockRelease ==
  /\ \A t \in Threads :
       /\ ~ev[t].foreign_unlock
       /\ ev[t].find_unlocks + ev[t].unlocks <= ev[t].locks
       /\ ev[t].unlocks <= 1
       /\ ev[t].unlocks = 1 => ev[t].left_held
       /\ ev[t].done => (ev[t].left_held => ev[t].unlocks = 1)
  /\ \A t \in Threads : \A c \in 1..Len(caches) :
       pc[t] = "idle" => caches[c].mutex # t

\* one call has returned after a miss that left the mutex held and released
\* it, another after a wait for the mutex that bvhcache_find released itself
C4_Witness ==
  \E t1, t2 \in Threads :
    /\ ev[t1].done /\ ev[t1].left_held /\ ev[t1].unlocks = 1
    /\ ev[t2].done /\ ~ev[t2].left_held /\ ev[t2].locks = 1 /\ ev[t2].find_unlocks = 1

\* the slot of a call through a cache
SlotOf(c) == Slot(bvh_cache[c.s], c.type)

\* C5 as stated (hits never block): a call whose first read of its slot
\* finds it filled acquires neither the cache mutex nor the eval mutex.
C5_Original ==
  \A t \in Threads :
    ev[t].first_read = "filled" => ev[t].locks = 0 /\ ev[t].init_locks = 0

\* C5 as amended: a call whose first read of its slot finds it filled
\* never acquires the cache mutex, acquires the eval mutex only if it found
\* the cache reference null on entry, returns the tree of the slot (which
\* stays there until the cache is destroyed), and none of its steps from the
\* slot read on waits for another thread.
C5_HitsNeverBlock ==
  \A t \in Threads :
    ev[t].first_read = "filled" =>
      /\ ev[t].locks = 0
      /\ ev[t].init_locks > 0 => ev[t].saw_null
      /\ pc[t] \in {"find_tree", "idle"}
      /\ pc[t] = "find_tree" => ENABLED FindTree(t)
      /\ pc[t] = "idle" =>
           /\ ev[t].done
           /\ ev[t].ret_cached
           /\ Alive(call[t].s) => ev[t].ret = SlotOf(call[t]).tree

\* a thread has read its slot filled and is about to return the tree while
\* another thread holds the mutex of the same cache in the build of another
\* type
C5_Witness ==
  \E t, u \in Threads :
    /\ pc[t] = "find_tree"
    /\ ev[t].first_read = "filled"
    /\ ev[t].init_locks = 0
    /\ pc[u] = "create"
    /\ caches[bvh_cache_l[t]].mutex = u
    /\ call[u].s = call[t].s
    /\ call[u].type # call[t].type

\* C6 (idempotent caching): a call through a cache that begins after a call
\* for the same surface and type through that cache has returned returns
\* the same handle, and inserts no primitive, balances nothing, runs no
\* build and writes no slot.
C6_IdempotentCaching ==
  \A t \in Threads :
    (call[t].with_cache /\ ev[t].again) =>
      /\ ev[t].builds = 0
      /\ ev[t].inserted = 0
      /\ ev[t].balances = 0
      /\ ev[t].slot_writes = 0
      /\ ev[t].done => ev[t].before = {ev[t].ret}

\* the one thread of the sequential workload has made the same call twice
\* and got the same loose-edge tree
C6_Witness ==
  \E t \in Threads :
    /\ workload = "single"
    /\ call[t].type = "LOOSEEDGES"
    /\ ev[t].done
    /\ ev[t].again
    /\ ev[t].ret # NULL
    /\ ev[t].before = {ev[t].ret}

\* C7 (absent results are cached): a call through a cache that returned no
\* tree left its slot filled with nullptr, and a later call for that slot
\* returns no tree with cached set and runs no build.
C7_AbsentCached ==
  /\ \A r \in CachedCalls :
       r.tree = NULL => r.cached /\ SlotOf(r.call).is_filled /\ SlotOf(r.call).tree = NULL
  /\ \A t \in Threads :
       (call[t].with_cache /\ ev[t].again /\ NULL \in ev[t].before) =>
         /\ ev[t].builds = 0
         /\ ev[t].done => ev[t].ret = NULL /\ ev[t].ret_cached

\* a second call for the vertices of the empty mesh has returned no tree
\* from the cache
C7_Witness ==
  \E t \in Threads :
    /\ call[t].api = "mesh"
    /\ call[t].type = "VERTS"
    /\ MeshOf(call[t].s).totvert = 0
    /\ ev[t].done
    /\ ev[t].again
    /\ ev[t].before = {NULL}
    /\ ev[t].ret = NULL
    /\ ev[t].ret_cached
    /\ ev[t].builds = 0

\* C8 (release semantics): a release changes no cache; on a cached bundle
\* it frees nothing, on an uncached bundle with a tree it frees that tree;
\* a tree stored in a slot is never freed, and a later call for the slot
\* returns the handle returned before.
C8_ReleaseSemantics ==
  /\ [][\A t \in Threads :
          Release(t) =>
            /\ caches' = caches
            /\ data[t].cached => trees' = trees
            /\ (~data[t].cached /\ data[t].tree # NULL) =>
                 trees'[data[t].tree].freed = trees[data[t].tree].freed + 1]_vars
  /\ [](\A c \in 1..Len(caches) : \A ty \in BVHCacheType :
          (caches[c].items[ty].is_filled /\ caches[c].items[ty].tree # NULL) =>
            trees[caches[c].items[ty].tree].freed = 0)
  /\ [](\A t \in Threads :
          (call[t].with_cache /\ ev[t].again /\ ev[t].done) => ev[t].ret \in ev[t].before)

\* an uncached tree has been freed by its release, and a thread that
\* released a cached bundle has got the same live tree from its next call
C8_Witness ==
  /\ \E h \in 1..Len(trees) : trees[h].freed = 1 /\ ~trees[h].for.with_cache
  /\ \E t \in Threads :
       /\ call[t].with_cache
       /\ ev[t].done
       /\ ev[t].after_release
       /\ ev[t].ret # NULL
       /\ ev[t].ret \in ev[t].before
       /\ trees[ev[t].ret].freed = 0

\* C9 (ownership flag): a returned bundle has cached set exactly when the
\* call went through a cache (always for BKE_bvhtree_from_mesh_get, never
\* for an _ex builder); then its handle is the one in the filled slot of
\* the requested type for as long as the cache exists; a tree returned with
\* cached clear is in no slot of any cache.
C9_OwnershipFlag ==
  \A r \in returned :
    /\ r.cached <=> r.call.with_cache
    /\ (r.call.fn = "get" /\ r.call.api = "mesh") => r.cached
    /\ r.call.fn = "ex" => ~r.cached
    /\ r.cached =>
         /\ bvh_cache[r.call.s] # NULL
         /\ SlotOf(r.call).is_filled
         /\ Alive(r.call.s) => SlotOf(r.call).tree = r.tree
    /\ (~r.cached /\ r.tree # NULL) =>
         \A c \in 1..Len(caches) : \A ty \in BVHCacheType :
           caches[c].items[ty].tree # r.tree

\* an _ex builder has returned a tree of the caller and an entry point a
\* tree of the cache
C9_Witness ==
  \E r1, r2 \in returned :
    /\ r1.call.fn = "ex" /\ r1.tree # NULL /\ ~r1.cached
    /\ r2.call.fn = "get" /\ r2.tree # NULL /\ r2.cached

\* C10 (double-checked locking): a call that finds its slot filled when it
\* looks again under the cache mutex starts no build, reports a hit with
\* the lock not held, releases the mutex inside bvhcache_find and returns
\* the tree of the slot.
C10_DoubleChecked ==
  \A t \in Threads :
    ev[t].recheck = "filled" =>
      /\ ev[t].builds = 0
      /\ ~ev[t].left_held
      /\ ~lock_started[t]
      /\ pc[t] \in {"find_tree", "hit_unlock", "idle"}
      /\ pc[t] = "idle" =>
           /\ ev[t].done
           /\ ev[t].find_unlocks = 1
           /\ ev[t].unlocks = 0
           /\ ev[t].ret_cached
           /\ ev[t].ret = SlotOf(call[t]).tree
           /\ caches[bvh_cache[call[t].s]].mutex # t

\* two of three racing threads waited for the mutex and each found the
\* slot filled by the third
C10_Witness ==
  \E t1, t2 \in Threads :
    /\ t1 # t2
    /\ ev[t1].done /\ ev[t1].recheck = "filled" /\ ev[t1].ret # NULL
    /\ ev[t2].done /\ ev[t2].recheck = "filled" /\ ev[t2].ret = ev[t1].ret

\* thread t is between a miss of bvhcache_find through a cache and the end
\* of its entry point: the build, the balance, the insert and the unlock
InBuild(t) ==
  call[t].with_cache /\ pc[t] \in {"create", "balance", "insert_tree", "insert_filled", "unlock"}

\* thread t holds the mutex of the cache of its surface
HoldsCacheMutex(t) ==
  /\ call[t].with_cache
  /\ bvh_cache[call[t].s] # NULL
  /\ caches[bvh_cache[call[t].s]].mutex = t

\* C11 (at most one builder per cache): a thread between a miss with a lock
\* request and its unlock has lock_started set and holds the mutex of the
\* cache of its surface, and no two threads are there for the same surface,
\* whatever their types.
C11_OneBuilderPerCache ==
  /\ \A t \in Threads : InBuild(t) => lock_started[t] /\ ev[t].left_held /\ HoldsCacheMutex(t)
  /\ \A t, u \in Threads : (t # u /\ InBuild(t) /\ InBuild(u)) => call[t].s # call[u].s

\* a thread is in the build of the vertices while another, which asked for
\* the edit-mesh triangles of the same surface, waits for the mutex
C11_Witness ==
  \E t, u \in Threads :
    /\ InBuild(t) /\ pc[t] = "balance" /\ call[t].type = "VERTS"
    /\ pc[u] = "lock" /\ call[u].s = call[t].s /\ call[u].type = "EM_LOOPTRI"
    /\ ev[u].first_read = "empty"

\* thread t waits for the cache mutex at line 89
WaitsForCacheMutex(t) == pc[t] = "lock" /\ ~ENABLED Lock(t)

\* thread t waits for the eval mutex at line 77
WaitsForEvalMutex(t) == pc[t] = "init_lock" /\ ~ENABLED InitLock(t)

\* thread u is between its acquisition of the cache mutex and its release
InLocked(u) ==
  \/ InBuild(u)
  \/ pc[u] = "hit_unlock"
  \/ pc[u] \in {"find_null", "find_load", "find_filled", "find_tree"} /\ frame[u] = "inner"

\* C12 as stated (only same-slot racers serialize): a thread that waits for
\* the cache mutex after a miss is kept waiting only by a thread that works
\* on the slot of the same type.
C12_Original ==
  \A t, u \in Threads :
    (WaitsForCacheMutex(t) /\ caches[bvh_cache_l[t]].mutex = u) => call[u].type = call[t].type

\* C12 as amended: a thread that missed waits at line 89 exactly while some
\* other thread holds the mutex of the same cache, and that thread is
\* between its own miss on some slot of that cache (of the same or of
\* another type) and its release; a thread waits at line 77 exactly while
\* another thread is in the lazy initialization of the same surface; a
\* thread working on another surface keeps nobody waiting.
C12_SameCacheSerializes ==
  /\ \A t \in Threads :
       pc[t] = "lock" =>
         /\ ENABLED Lock(t) <=> caches[bvh_cache_l[t]].mutex = NULL
         /\ WaitsForCacheMutex(t) =>
              \E u \in Threads \ {t} :
                /\ caches[bvh_cache_l[t]].mutex = u
                /\ call[u].s = call[t].s
                /\ call[u].with_cache
                /\ InLocked(u)
  /\ \A t \in Threads :
       pc[t] = "init_lock" =>
         /\ ENABLED InitLock(t) <=> eval_mutex[call[t].s] = NULL
         /\ WaitsForEvalMutex(t) =>
              \E u \in Threads \ {t} :
                /\ eval_mutex[call[t].s] = u
                /\ call[u].s = call[t].s
                /\ pc[u] \in {"init_body", "init_unlock"}

\* a thread that missed on the edit-mesh triangles waits for a thread that
\* is in the build of another type for the same surface
C12_Witness ==
  \E t, u \in Threads :
    /\ WaitsForCacheMutex(t)
    /\ caches[bvh_cache_l[t]].mutex = u
    /\ InBuild(u)
    /\ call[u].type # call[t].type

\* the call of thread t ran a builder whose BLI_bvhtree_new returned null:
\* the plan of its type reaches the allocation, and the build left no tree
AllocFailed(t) ==
  /\ call[t].fn = "get"
  /\ ~Plan(t).early
  /\ ev[t].builds = 1
  /\ pc[t] \in {"balance", "insert_tree", "insert_filled", "unlock", "idle"}
  /\ (pc[t] = "idle" => ev[t].done /\ ev[t].ret = NULL)
  /\ (pc[t] # "idle" => data[t].tree = NULL)

\* C13 (failed builds are cached and not retried): a call through a cache
\* whose allocation failed returns no tree with its slot filled with
\* nullptr and the cache mutex released, and a later call for the slot
\* returns no tree from the cache without a build and without the mutex.
C13_FailedBuildCached ==
  /\ \A t \in Threads :
       (call[t].with_cache /\ AllocFailed(t)) =>
         /\ ev[t].balances = 0
         /\ pc[t] = "idle" =>
              /\ ev[t].ret_cached
              /\ SlotOf(call[t]).is_filled
              /\ SlotOf(call[t]).tree = NULL
              /\ ev[t].unlocks = 1
              /\ ~HoldsCacheMutex(t)
  /\ \A t \in Threads :
       (call[t].with_cache /\ call[t].fn = "get" /\ ~Plan(t).early
          /\ ev[t].again /\ NULL \in ev[t].before) =>
         /\ ev[t].builds = 0
         /\ ev[t].locks = 0
         /\ ev[t].done => ev[t].ret = NULL /\ ev[t].ret_cached

\* the allocation failed in the first call for the vertices of the full
\* mesh, and a second call has returned no tree without building
C13_Witness ==
  \E t \in Threads :
    /\ call[t].with_cache
    /\ call[t].type = "VERTS"
    /\ ~Plan(t).early
    /\ built[call[t].s][call[t].type] = 1
    /\ ev[t].done
    /\ ev[t].again
    /\ ev[t].before = {NULL}
    /\ ev[t].ret = NULL
    /\ ev[t].builds = 0
    /\ caches[bvh_cache[call[t].s]].mutex = NULL

\* a call of an entry point with a type of the other representation
Unsupported(c) ==
  /\ c.fn = "get"
  /\ \/ c.api = "mesh" /\ c.type \in EMTypes
     \/ c.api = "editmesh" /\ c.type \in MeshTypes

\* C14 (unsupported variant is a fatal assertion): a call of an entry point
\* with a type of the other representation fails an assertion in its first
\* step: when the assertion fails the call has acquired neither mutex and
\* written no slot, and the caches are as they were before the call; so in
\* every state in which such a call is past its first step the assertion
\* has failed.  If execution goes on after the assertion, the call still
\* returns without the cache mutex.
C14_UnsupportedAsserts ==
  /\ [](\A t \in Threads :
          (Unsupported(call[t]) /\ (pc[t] # "idle" \/ ev[t].done)) =>
            "unsupported_type" \in asserts)
  /\ [][\A t \in Threads :
          (pc[t] = "idle" /\ pc'[t] # "idle" /\ Unsupported(call'[t])) =>
            /\ "unsupported_type" \in asserts'
            /\ <<bvh_cache, eval_mutex, caches, trees>>' = <<bvh_cache, eval_mutex, caches, trees>>
            /\ ev'[t].locks = 0
            /\ ev'[t].init_locks = 0
            /\ ev'[t].slot_writes = 0
            /\ ev'[t].builds = 0]_vars
  /\ [](\A t \in Threads :
          (Unsupported(call[t]) /\ ev[t].done) => ~HoldsCacheMutex(t))

\* BKE_bvhtree_from_mesh_get has just been called with BVHTREE_FROM_EM_VERTS:
\* the assertion has failed, the surface has no cache yet and the call has
\* taken no mutex
C14_Witness ==
  \E t \in Threads :
    /\ call[t].api = "mesh"
    /\ call[t].type = "EM_VERTS"
    /\ Unsupported(call[t])
    /\ pc[t] = "find_null"
    /\ frame[t] = "outer"
    /\ "unsupported_type" \in asserts
    /\ bvh_cache[call[t].s] = NULL
    /\ ev[t].locks = 0
    /\ ev[t].init_locks = 0

\* C15 (read-only fast path): the step in which bvhcache_find, called with
\* no lock request, finds the cache reference null returns false and
\* changes nothing: the reference stays null, no cache is allocated,
\* neither mutex is taken and *r_tree is left alone; a call without a lock
\* request never acquires a mutex, allocates or writes a slot at all.
C15_ReadOnlyFastPath ==
  /\ [][\A t \in Threads :
          (pc[t] = "find_null" /\ frame[t] = "direct" /\ CacheIsNull(t) /\ pc'[t] # pc[t]) =>
            /\ pc'[t] = "idle"
            /\ ev'[t].done
            /\ ~ev'[t].found
            /\ <<bvh_cache, eval_mutex, caches, trees>>' = <<bvh_cache, eval_mutex, caches, trees>>
            /\ bvh_cache'[call[t].s] = NULL
            /\ allocs' = allocs
            /\ data' = data
            /\ lock_started' = lock_started]_vars
  /\ [](\A t \in Threads :
          call[t].fn = "find" =>
            /\ ev[t].locks = 0
            /\ ev[t].init_locks = 0
            /\ ev[t].slot_writes = 0
            /\ ev[t].builds = 0
            /\ \A s \in Surfaces : eval_mutex[s] # t
            /\ \A c \in 1..Len(caches) : caches[c].mutex # t)

\* a call of bvhcache_find without a lock request has returned false for a
\* surface that still has no cache
C15_Witness ==
  \E t \in Threads :
    /\ call[t].fn = "find"
    /\ ev[t].done
    /\ ~ev[t].found
    /\ bvh_cache[call[t].s] = NULL
    /\ allocs[call[t].s] = 0
    /\ eval_mutex[call[t].s] = NULL
    /\ data[t].tree = NULL

\* the candidates a mask over n candidates selects: all of them without a
\* mask
Selected(n, mask) == {i \in 0..(n - 1) : mask = << >> \/ mask[i + 1]}

\* the number of candidates of the builder an entry point runs for a type
\* it builds without a mask
CandidateCount(m, type) ==
  CASE type = "VERTS" -> m.totvert
    [] type = "EDGES" -> Len(m.edges)
    [] type = "FACES" -> m.totface
    [] type = "LOOPTRI" -> LooptriLen(m)
    [] type = "EM_VERTS" -> m.em_totvert
    [] type = "EM_EDGES" -> m.em_totedge
    [] OTHER -> m.em_tottri

\* C16 (original-index preservation): the identifiers inserted into a tree
\* are strictly increasing; for a tree built by an _ex function over n
\* candidates they are exactly the candidates the caller's mask selects;
\* for a tree an entry point built for a type without a mask they are all
\* candidates 0..n-1.
C16_OriginalIndices ==
  \A h \in 1..Len(trees) :
    LET c == trees[h].for
        prims == trees[h].prims
        ids == {prims[j] : j \in 1..Len(prims)}
    IN /\ \A j \in 1..(Len(prims) - 1) : prims[j] < prims[j + 1]
       /\ c.fn = "ex" => ids = Selected(c.num, c.mask)
       /\ (c.fn = "get" /\ c.type \in {"VERTS", "EDGES", "FACES", "LOOPTRI"} \cup EMTypes) =>
            ids = 0..(CandidateCount(MeshOf(c.s), c.type) - 1)

\* bvhtree_from_mesh_edges_ex over five edges with the mask of edges 1 and
\* 3 has built a tree holding the identifiers 1 and 3
C16_Witness ==
  \E h \in 1..Len(trees) :
    /\ trees[h].for.fn = "ex"
    /\ trees[h].for.api = "mesh"
    /\ trees[h].for.type = "EDGES"
    /\ trees[h].for.num = 5
    /\ trees[h].for.mask = <<FALSE, TRUE, FALSE, TRUE, FALSE>>
    /\ trees[h].prims = <<1, 3>>
    /\ trees[h].maxsize = 2

\* C17 as stated (zero active primitives yields no index): no builder calls
\* BLI_bvhtree_new when its active count is 0, so every tree that exists
\* was allocated for at least one primitive, and a call whose builder has
\* no active primitive returns no tree.
C17_ZeroActiveNoIndex ==
  /\ \A h \in 1..Len(trees) : trees[h].maxsize # 0
  /\ \A t \in Threads :
       (ev[t].done /\ call[t].fn = "get" /\ ~Unsupported(call[t])
          /\ call[t].type \in {"VERTS", "EDGES", "FACES", "LOOPTRI"} \cup EMTypes
          /\ CandidateCount(MeshOf(call[t].s), call[t].type) = 0) =>
         ev[t].ret = NULL

\* the trees in the slots of cache c
SlotTrees(c) == {caches[c].items[ty].tree : ty \in BVHCacheType} \ {NULL}

\* C18 (destroy frees each cached tree exactly once): the step of
\* bvhcache_free frees every tree in a slot of the cache once and no other
\* tree; no tree is ever freed twice; once the cache of a surface is
\* destroyed every tree built for it through the cache has been freed
\* exactly once, and before that none of them has been freed.
C18_DestroyFreesOnce ==
  /\ [][\A c \in 1..Len(caches) :
          (caches[c].freed = 0 /\ caches'[c].freed # 0) =>
            /\ caches'[c].freed = 1
            /\ \A h \in 1..Len(trees) :
                 trees'[h].freed = trees[h].freed + (IF h \in SlotTrees(c) THEN 1 ELSE 0)
            /\ \A h \in SlotTrees(c) : trees[h].freed = 0
            /\ Len(trees') = Len(trees)]_vars
  /\ [](\A h \in 1..Len(trees) : trees[h].freed <= 1)
  /\ [](\A h \in 1..Len(trees) :
          LET c == trees[h].for
          IN (c.with_cache /\ bvh_cache[c.s] # NULL /\ \A t \in Threads : pc[t] = "idle") =>
               trees[h].freed = caches[bvh_cache[c.s]].freed)

\* a cache that held a tree in one slot and nullptr in another, the rest
\* never filled, has been destroyed, and the tree has been freed once
C18_Witness ==
  \E s \in Surfaces :
    /\ bvh_cache[s] # NULL
    /\ caches[bvh_cache[s]].freed = 1
    /\ \E h \in 1..Len(trees) :
         /\ trees[h].for.with_cache /\ trees[h].for.s = s /\ trees[h].freed = 1
         /\ [call |-> trees[h].for, tree |-> h, cached |-> TRUE] \in returned
    /\ \E r \in returned : r.call.s = s /\ r.cached /\ r.tree = NULL
    /\ \E ty \in BVHCacheType : ~caches[bvh_cache[s]].items[ty].is_filled

\* thread t is in, or has returned from, a call of
\* BKE_bvhtree_from_editmesh_get without a cache reference
Ephemeral(t) == call[t].fn = "get" /\ ~call[t].with_cache /\ (pc[t] # "idle" \/ ev[t].done)

\* C19 (ephemeral acquisition): a call of BKE_bvhtree_from_editmesh_get
\* without a cache reference never touches a mutex, a cache reference or a
\* slot; it runs its builder once on every call, and a tree it returns is
\* new, built for this call, balanced once and not as an isolated task, in
\* no slot of any cache, returned with cached clear and not freed by anyone
\* while the caller holds the bundle.
C19_EphemeralAcquisition ==
  /\ [](\A t \in Threads :
          Ephemeral(t) =>
            /\ ev[t].locks = 0
            /\ ev[t].init_locks = 0
            /\ ev[t].slot_writes = 0
            /\ ev[t].first_read = "none"
            /\ ev[t].recheck = "none"
            /\ ~lock_started[t]
            /\ pc[t] \in {"create", "balance", "idle"}
            /\ ev[t].done =>
                 /\ ev[t].builds = 1
                 /\ ~ev[t].ret_cached
                 /\ ev[t].ret # NULL =>
                      /\ trees[ev[t].ret].for = call[t]
                      /\ trees[ev[t].ret].balanced = 1
                      /\ ~trees[ev[t].ret].isolated
                      /\ ev[t].ret \notin ev[t].before
                      /\ \A c \in 1..Len(caches) : ev[t].ret \notin SlotTrees(c)
                      /\ data[t].tree = ev[t].ret => trees[ev[t].ret].freed = 0)
  /\ [][\A t \in Threads :
          (pc'[t] # pc[t] /\ call'[t].fn = "get" /\ ~call'[t].with_cache) =>
            <<bvh_cache, eval_mutex, caches>>' = <<bvh_cache, eval_mutex, caches>>]_vars

\* a thread has made the same call without a cache reference twice and got
\* a second tree
C19_Witness ==
  \E t \in Threads :
    /\ Ephemeral(t)
    /\ call[t].type = "EM_LOOPTRI"
    /\ ev[t].done
    /\ ev[t].again
    /\ ev[t].ret # NULL
    /\ \E h \in ev[t].before : h # NULL /\ h # ev[t].ret
    /\ ~trees[ev[t].ret].isolated

\* C20 (blocking scope of a stuck build): while a thread is in a build that
\* never ends, holding the mutex of the cache of a surface, (a) a call that
\* missed on any slot of that cache stays at the lock forever, (b) a call
\* that starts on a filled slot of that cache returns the tree, and (c) a
\* call through the cache of another surface returns.
C20_StuckBuildScope ==
  \A t \in CallThreads("mixed") : \A u \in CallThreads("mixed") \ {t} :
    /\ []((Stuck(u) /\ pc[t] = "lock" /\ call[t].s = call[u].s) => [](pc[t] = "lock"))
    /\ (Stuck(u) /\ call[t].fn = "get" /\ call[t].with_cache /\ call[t].s = call[u].s
          /\ pc[t] = "find_null" /\ frame[t] = "outer" /\ SlotOf(call[t]).is_filled)
         ~> (pc[t] = "idle" /\ ev[t].done /\ ev[t].found /\ ev[t].locks = 0 /\ Stuck(u))
    /\ (Stuck(u) /\ call[t].fn = "get" /\ call[t].with_cache /\ call[t].s # call[u].s
          /\ pc[t] # "idle")
         ~> (pc[t] = "idle" /\ ev[t].done /\ Stuck(u))

\* one thread is in the build that never ends, the other has missed on the
\* vertices of the same surface and waits for the mutex, after a call for
\* the other surface went through a miss and returned
C20_Witness ==
  \E t, u \in Threads :
    /\ Stuck(u)
    /\ pc[t] = "lock"
    /\ call[t].s = call[u].s
    /\ call[t].type = "VERTS"
    /\ ev[t].first_read = "empty"
    /\ caches[bvh_cache_l[t]].mutex = u
    /\ \E r \in returned : r.call.s # call[u].s /\ r.cached

\* thread t is on the miss path of a call through a cache: between the
\* return of bvhcache_find with false and the return of the entry point
OnMissPath(t) == call[t].fn = "get" /\ InBuild(t)

\* C21 (miss-path ordering): a call through a cache that misses goes
\* through build, balance, the write of the cached flag and of the slot's
\* tree, the write of is_filled, and the unlock, in this order and each
\* once; the builder leaves its tree unbalanced, the tree is balanced once
\* before it is written to a slot and an absent tree is never balanced; the
\* primitives of a tree never change after its builder returned.  So a tree
\* found in a slot of a live cache, filled or not, and every present tree a
\* call returned as cached, holds all its primitives and has been balanced
\* exactly once.
C21_MissPathOrdering ==
  /\ [][\A t \in Threads :
          (OnMissPath(t) /\ pc'[t] # pc[t]) =>
            /\ pc[t] = "create" =>
                 /\ pc'[t] = "balance"
                 /\ ~data'[t].cached
                 /\ data'[t].tree # NULL =>
                      /\ data'[t].tree = Len(trees) + 1
                      /\ trees'[data'[t].tree].balanced = 0
                      /\ trees'[data'[t].tree].prims = Plan(t).prims
            /\ pc[t] = "balance" =>
                 /\ pc'[t] = "insert_tree"
                 /\ ~data'[t].cached
                 /\ ~SlotOf(call[t]).is_filled
                 /\ SlotOf(call[t]).tree = NULL
                 /\ ev'[t].balances = (IF data[t].tree = NULL THEN 0 ELSE 1)
                 /\ data[t].tree # NULL => trees'[data[t].tree].balanced = 1
            /\ pc[t] = "insert_tree" =>
                 /\ pc'[t] = "insert_filled"
                 /\ data'[t].cached
                 /\ caches'[bvh_cache[call[t].s]].items[call[t].type] =
                      [is_filled |-> FALSE, tree |-> data[t].tree]
            /\ pc[t] = "insert_filled" =>
                 /\ pc'[t] = "unlock"
                 /\ caches'[bvh_cache[call[t].s]].items[call[t].type] =
                      [is_filled |-> TRUE, tree |-> data[t].tree]
                 /\ caches'[bvh_cache[call[t].s]].mutex = t
            /\ pc[t] = "unlock" =>
                 /\ pc'[t] = "idle"
                 /\ ev'[t].done
                 /\ caches[bvh_cache[call[t].s]].mutex = t
                 /\ caches'[bvh_cache[call[t].s]].mutex = NULL
                 /\ SlotOf(call[t]) = [is_filled |-> TRUE, tree |-> data[t].tree]]_vars
  /\ [][\A h \in 1..Len(trees) :
          /\ trees'[h].prims = trees[h].prims
          /\ trees'[h].balanced # trees[h].balanced =>
               \E t \in Threads : call[t].fn = "get" /\ pc[t] = "balance" /\ data[t].tree = h]_vars
  /\ [](\A h \in 1..Len(trees) : trees[h].balanced <= 1)
  /\ [](\A c \in 1..Len(caches), ty \in BVHCacheType :
          (caches[c].freed = 0 /\ caches[c].items[ty].tree # NULL) =>
            trees[caches[c].items[ty].tree].balanced = 1)
  /\ [](\A r \in returned :
          (r.cached /\ r.tree # NULL) =>
            /\ trees[r.tree].balanced = 1
            /\ Len(trees[r.tree].prims) = trees[r.tree].maxsize)

\* a thread has read a slot filled, without a lock, and
\* returned its tree while the thread that built it has written is_filled
\* but not yet unlocked
C21_Witness ==
  \E t, u \in Threads :
    /\ t # u
    /\ OnMissPath(u)
    /\ pc[u] = "unlock"
    /\ ev[u].balances = 1
    /\ SameTarget(call[t], call[u])
    /\ pc[t] = "idle"
    /\ ev[t].done
    /\ ev[t].first_read = "filled"
    /\ ev[t].locks = 0
    /\ ev[t].ret = data[u].tree
    /\ trees[ev[t].ret].balanced = 1

\* thread t is inside bvhcache_insert, or about to enter it
InInsert(t) == call[t].fn = "get" /\ pc[t] \in {"insert_tree", "insert_filled"}

\* C22 (slot writes happen only under the cache mutex): a thread in
\* bvhcache_insert has lock_started set and holds the mutex of the cache it
\* writes to, which is the cache of its surface; and every step that
\* changes a slot of a cache that stays alive is a step of bvhcache_insert
\* by the thread that holds the mutex of that cache, on the slot of its own
\* type only.
C22_SlotWritesUnderMutex ==
  /\ [](\A t \in Threads :
          InInsert(t) =>
            /\ lock_started[t]
            /\ HoldsCacheMutex(t)
            /\ pc[t] = "insert_filled" => bvh_cache_l[t] = bvh_cache[call[t].s])
  /\ [][\A c \in 1..Len(caches) :
          (caches'[c].freed = 0 /\ caches'[c].items # caches[c].items) =>
            \E t \in Threads :
              /\ InInsert(t)
              /\ pc'[t] # pc[t]
              /\ lock_started[t]
              /\ bvh_cache[call[t].s] = c
              /\ caches[c].mutex = t
              /\ caches'[c].mutex = t
              /\ \A ty \in BVHCacheType \ {call[t].type} :
                   caches'[c].items[ty] = caches[c].items[ty]]_vars

\* a thread is between the two writes of bvhcache_insert while another
\* thread, which missed on the same slot, waits for the mutex
C22_Witness ==
  \E t, u \in Threads :
    /\ t # u
    /\ InInsert(t)
    /\ pc[t] = "insert_filled"
    /\ SlotOf(call[t]).tree # NULL
    /\ ~SlotOf(call[t]).is_filled
    /\ SameTarget(call[t], call[u])
    /\ WaitsForCacheMutex(u)

\* the call a tree was built for went through an entry point with a cache
\* reference, so its thread held the mutex of the cache when it balanced
BuiltUnderMutex(h) == trees[h].for.fn = "get" /\ trees[h].for.with_cache

\* C23 (balancing isolation): when an entry point balances a present tree
\* the balance runs as an isolated task exactly when lock_started is set,
\* which is exactly when the thread holds the mutex of the cache of its
\* surface; the step leaves an absent tree, and every other tree, alone.  A
\* tree built by an _ex function, by the point-cloud builder or by the
\* edit-mesh entry point without a cache reference is balanced once and
\* inline, a tree built through a cache once and isolated.
C23_BalancingIsolation ==
  /\ [][\A t \in Threads :
          (pc[t] = "balance" /\ pc'[t] # pc[t]) =>
            /\ lock_started[t] = HoldsCacheMutex(t)
            /\ lock_started[t] = call[t].with_cache
            /\ \A h \in 1..Len(trees) : h # data[t].tree => trees'[h] = trees[h]
            /\ Len(trees') = Len(trees)
            /\ data[t].tree = NULL => ev'[t].balances = 0
            /\ data[t].tree # NULL =>
                 /\ ev'[t].balances = 1
                 /\ trees'[data[t].tree].balanced = trees[data[t].tree].balanced + 1
                 /\ trees'[data[t].tree].isolated = lock_started[t]]_vars
  /\ [](\A h \in 1..Len(trees) :
          /\ trees[h].balanced = 1 => trees[h].isolated = BuiltUnderMutex(h)
          /\ trees[h].for.fn \in {"ex", "pointcloud"} =>
               trees[h].balanced = 1 /\ ~trees[h].isolated)
  /\ [](\A t \in Threads : (ev[t].done /\ ev[t].ret = NULL) => ev[t].balances = 0)

\* a tree built through a cache has been balanced as an isolated task and
\* a tree of the point-cloud builder inline
C23_Witness ==
  \E h1, h2 \in 1..Len(trees) :
    /\ BuiltUnderMutex(h1) /\ trees[h1].balanced = 1 /\ trees[h1].isolated
    /\ trees[h2].for.fn = "pointcloud" /\ trees[h2].balanced = 1 /\ ~trees[h2].isolated
    /\ trees[h2].prims = <<0, 1>>

\* the count a caller supplied with call c is the number of set bits of its
\* mask, or there is no mask
CountMatchesMask(c) ==
  c.mask = << >> \/ c.count = Cardinality({i \in 1..Len(c.mask) : c.mask[i]})

\* C24 as stated (insertion count equals active count): a tree built for a
\* call whose count matches its mask holds as many primitives as it was
\* allocated for, which is the active count; and every builder asserts the
\* equality, so a tree that holds another number of primitives has failed
\* the assertion on the tree's length.
C24_InsertionCountAsserted ==
  /\ \A h \in 1..Len(trees) :
       CountMatchesMask(trees[h].for) => Len(trees[h].prims) = trees[h].maxsize
  /\ \A h \in 1..Len(trees) :
       Len(trees[h].prims) # trees[h].maxsize => "tree_len" \in asserts

\* the count supplied with call c lies in [0, number of candidates]
CountInRange(c) == c.count >= 0 /\ c.count <= c.num

\* C25 (absent mask means all active): a tree built without a mask was
\* allocated for the candidate total and holds every candidate 0..n-1,
\* whatever count the caller supplied (-1, 0, or a count above the total);
\* a tree built with a mask was allocated for the supplied count; and a
\* call of an _ex function fails the assertion on the range of the count
\* exactly when it supplies a mask with a count outside
\* [0, candidate total].
C25_AbsentMaskAllActive ==
  /\ [](\A h \in 1..Len(trees) :
          LET c == trees[h].for
              n == IF c.fn = "get" THEN CandidateCount(MeshOf(c.s), c.type) ELSE c.num
          IN /\ (c.fn \in {"ex", "pointcloud"} /\ c.mask = << >>) =>
                  trees[h].maxsize = n /\ trees[h].prims = [j \in 1..n |-> j - 1]
             /\ (c.fn = "get" /\ c.type \in {"VERTS", "EDGES", "FACES", "LOOPTRI"} \cup EMTypes) =>
                  trees[h].maxsize = n /\ trees[h].prims = [j \in 1..n |-> j - 1]
             /\ c.mask # << >> => trees[h].maxsize = c.count)
  /\ [][\A t \in CallThreads("masks") :
          (calls' = calls + 1 /\ call'[t].fn = "ex") =>
            /\ (call'[t].mask # << >> /\ ~CountInRange(call'[t])) =>
                 "mask_count_range" \in asserts'
            /\ (call'[t].mask = << >> \/ CountInRange(call'[t])) =>
                 ("mask_count_range" \in asserts' <=> "mask_count_range" \in asserts)]_vars

\* an _ex function was called over three candidates without a mask and
\* with a count of 0, and returned a tree that holds the three candidates
C25_Witness ==
  \E h \in 1..Len(trees) :
    /\ trees[h].for.fn = "ex"
    /\ trees[h].for.num = 3
    /\ trees[h].for.mask = << >>
    /\ trees[h].for.count = 0
    /\ trees[h].maxsize = 3
    /\ trees[h].prims = <<0, 1, 2>>
    /\ "mask_count_range" \notin asserts

\* the vertices of mesh m that no edge has as an endpoint
LooseVerts(m) ==
  {v \in 0..(m.totvert - 1) :
     \A i \in 1..Len(m.edges) : m.edges[i][1] # v /\ m.edges[i][2] # v}

\* C26 (loose-vertex derivation): for the edge list and vertex count of
\* every surface, loose_verts_map_get returns a mask of verts_num bits in
\* which bit v is set iff no edge has v as an endpoint, and a count equal
\* to the number of set bits; and a tree built for the loose vertices of a
\* surface was allocated for that count and holds exactly those vertices.
C26_LooseVertsDerivation ==
  /\ \A s \in Surfaces :
       LET m == MeshOf(s)
           r == loose_verts_map_get(m.edges, m.totvert)
       IN /\ Len(r.mask) = m.totvert
          /\ \A v \in 0..(m.totvert - 1) : Bit(r.mask, v) <=> v \in LooseVerts(m)
          /\ r.count = Cardinality(LooseVerts(m))
          /\ r.count = Cardinality({i \in 1..Len(r.mask) : r.mask[i]})
  /\ \A h \in 1..Len(trees) :
       LET c == trees[h].for
       IN (c.fn = "get" /\ c.type = "LOOSEVERTS") =>
            /\ trees[h].maxsize = Cardinality(LooseVerts(MeshOf(c.s)))
            /\ {trees[h].prims[j] : j \in 1..Len(trees[h].prims)} = LooseVerts(MeshOf(c.s))
            /\ Len(trees[h].prims) = trees[h].maxsize

\* the loose vertices of a surface with three vertices and the edges
\* (1, 1) and (1, 0), a self-loop and an edge that shares a vertex with it,
\* have been acquired: the tree holds vertex 2 only
C26_Witness ==
  \E t \in Threads :
    /\ call[t].fn = "get"
    /\ call[t].type = "LOOSEVERTS"
    /\ MeshOf(call[t].s).totvert = 3
    /\ MeshOf(call[t].s).edges = << <<1, 1>>, <<1, 0>> >>
    /\ ev[t].done
    /\ ev[t].ret # NULL
    /\ trees[ev[t].ret].prims = <<2>>
    /\ trees[ev[t].ret].maxsize = 1

\* the index of the first loop-triangle of polygon p (1-based) of mesh m
FirstTri(m, p) == SumSeq([q \in 1..(p - 1) |-> PolyTriTot(m.polys[q])])

\* the loop-triangles of mesh m that belong to a polygon that is not hidden
VisibleTris(m) ==
  {i \in 0..(LooptriLen(m) - 1) :
     \E p \in 1..Len(m.polys) :
       /\ i >= FirstTri(m, p)
       /\ i < FirstTri(m, p) + PolyTriTot(m.polys[p])
       /\ ~m.hide_poly[p]}

\* the hide attribute of mesh m is a single false value
HideSingleFalse(m) == m.hide_single /\ \A p \in 1..Len(m.hide_poly) : ~m.hide_poly[p]

\* C27 (visible-triangle derivation): for the polygons and hide attribute
\* of every surface, looptri_no_hidden_map_get returns no mask and leaves
\* the count alone when the attribute is a single false value; otherwise it
\* returns a mask of one bit per loop-triangle in which the triangles of
\* polygon p are the bits FirstTri(p) .. FirstTri(p) + n - 1, set iff the
\* polygon is not hidden, and the number of set bits as the count.  A tree
\* acquired for the visible triangles holds exactly the triangles of the
\* polygons that are not hidden (all triangles without a mask), and the
\* acquisition returns no tree when every polygon is hidden.
C27_NoHiddenDerivation ==
  /\ \A s \in Surfaces :
       LET m == MeshOf(s)
           r == looptri_no_hidden_map_get(m, -1)
       IN IF HideSingleFalse(m)
          THEN r.mask = << >> /\ r.count = -1
          ELSE /\ Len(r.mask) = LooptriLen(m)
               /\ \A p \in 1..Len(m.polys) :
                    \A k \in 0..(PolyTriTot(m.polys[p]) - 1) :
                      Bit(r.mask, FirstTri(m, p) + k) <=> ~m.hide_poly[p]
               /\ r.count = Cardinality({i \in 1..Len(r.mask) : r.mask[i]})
               /\ r.count = Cardinality(VisibleTris(m))
  /\ \A h \in 1..Len(trees) :
       LET c == trees[h].for
       IN (c.fn = "get" /\ c.type = "LOOPTRI_NO_HIDDEN") =>
            /\ {trees[h].prims[j] : j \in 1..Len(trees[h].prims)} = VisibleTris(MeshOf(c.s))
            /\ trees[h].maxsize = Cardinality(VisibleTris(MeshOf(c.s)))
            /\ Len(trees[h].prims) = trees[h].maxsize
  /\ \A t \in Threads :
       (call[t].fn = "get" /\ call[t].type = "LOOPTRI_NO_HIDDEN" /\ ev[t].done
          /\ VisibleTris(MeshOf(call[t].s)) = {}) =>
         ev[t].ret = NULL

\* the visible triangles of a quad, a hidden triangle and a quad have been
\* acquired: the tree holds the triangles 0, 1, 3 and 4
C27_Witness ==
  \E t \in Threads :
    /\ call[t].fn = "get"
    /\ call[t].type = "LOOPTRI_NO_HIDDEN"
    /\ MeshOf(call[t].s).polys = <<4, 3, 4>>
    /\ MeshOf(call[t].s).hide_poly = <<FALSE, TRUE, FALSE>>
    /\ ~MeshOf(call[t].s).hide_single
    /\ ev[t].done
    /\ ev[t].ret # NULL
    /\ trees[ev[t].ret].prims = <<0, 1, 3, 4>>

\* the edges of mesh m that its loose-edge classification marks loose
LooseEdges(m) ==
  {i \in 0..(Len(m.edges) - 1) : i < Len(m.loose_bits) /\ Bit(m.loose_bits, i)}

\* C28 as stated (loose-edge variant contents): a tree acquired for the
\* loose edges of a surface holds exactly the edges its classification
\* marks loose and was allocated for the count of the classification; and
\* when that count is 0 the acquisition returns no tree.
C28_LooseEdgesContents ==
  /\ \A h \in 1..Len(trees) :
       LET c == trees[h].for
       IN (c.fn = "get" /\ c.type = "LOOSEEDGES") =>
            /\ {trees[h].prims[j] : j \in 1..Len(trees[h].prims)} = LooseEdges(MeshOf(c.s))
            /\ trees[h].maxsize = MeshOf(c.s).loose_count
  /\ \A t \in Threads :
       (call[t].fn = "get" /\ call[t].type = "LOOSEEDGES" /\ ev[t].done
          /\ MeshOf(call[t].s).loose_count = 0) =>
         ev[t].ret = NULL

(* ---------------------------- C29 -------------------------------------- *)

\* thread t holds the bundle that a supported call of an entry point
\* returned and that has not been released
HoldsBundle(t) ==
  /\ call[t].fn = "get"
  /\ Req(call[t].api, call[t].type, call[t].with_cache) \in Supported
  /\ ev[t].done
  /\ data[t] # ZeroData

\* the callbacks and array references of a bundle
Adapters(d) == [d EXCEPT !.tree = NULL, !.cached = FALSE]

\* C29 (adapter selection depends only on the variant): in every returned
\* bundle the nearest callback is absent exactly for the vertex types and
\* EM_EDGES and the ray-cast callback exactly for EM_EDGES, the array
\* references point into the surface of the call and are determined by the
\* type, and two bundles returned for the same type and surface carry the same
\* callbacks and references whether the call was a hit or a miss.
C29_AdapterSelection ==
  /\ \A t \in Threads :
       HoldsBundle(t) =>
         LET d == data[t]
             c == call[t]
         IN /\ d.nearest_callback = "nullptr"
                 <=> c.type \in {"VERTS", "LOOSEVERTS", "EM_VERTS", "EM_EDGES"}
            /\ d.raycast_callback = "nullptr" <=> c.type = "EM_EDGES"
            /\ {d.vert_positions, d.edge, d.face, d.loop, d.looptri, d.em} \subseteq {NULL, c.s}
            /\ d.em = c.s <=> c.api = "editmesh"
            /\ d.vert_positions = c.s <=> c.api = "mesh"
            /\ d.looptri = c.s <=> c.type \in {"LOOPTRI", "LOOPTRI_NO_HIDDEN"}
  /\ \A t1, t2 \in Threads :
       (HoldsBundle(t1) /\ HoldsBundle(t2)
          /\ call[t1].api = call[t2].api /\ call[t1].type = call[t2].type
          /\ call[t1].s = call[t2].s)
         => Adapters(data[t1]) = Adapters(data[t2])

\* one thread holds the bundle of a call that built the tree and another
\* the bundle of a call for the same type and surface that found it cached
C29_Witness ==
  \E t1, t2 \in Threads :
    /\ HoldsBundle(t1) /\ HoldsBundle(t2)
    /\ SameTarget(call[t1], call[t2])
    /\ ev[t1].builds = 1 /\ ~ev[t1].found
    /\ ev[t2].found /\ ev[t2].builds = 0
    /\ data[t1].tree # NULL /\ data[t1].tree = data[t2].tree
    /\ data[t1].raycast_callback = "mesh_verts_spherecast"

(* ---------------------------- C30 -------------------------------------- *)

\* the record names the candidate that produced it: its index is a
\* primitive of the tree, its position and normal were computed from one
\* triangle or segment of that primitive, and its squared distance is the
\* distance of the query point to that triangle or segment
RecordedIndex ==
  nearest.index # -1 =>
    /\ nearest.index \in 0..1
    /\ nearest.co[1] = nearest.index
    /\ nearest.no = nearest.co
    /\ nearest.co[2] \in 1..Len(search.dists[nearest.index + 1])
    /\ search.dists[nearest.index + 1][nearest.co[2]] = nearest.dist_sq

\* C30 (nearest-point monotonic update): a call of a nearest callback
\* changes the record only when the squared distance of the record becomes
\* strictly smaller, so the best squared distance never increases and a
\* candidate at the distance of the record leaves index, position and normal
\* as they were; and a written record names the primitive that produced
\* its distance.
C30_NearestMonotonic ==
  /\ []RecordedIndex
  /\ [][/\ nearest' # nearest => FloatLess(nearest'.dist_sq, nearest.dist_sq)
        /\ ~FloatLess(nearest.dist_sq, nearest'.dist_sq)]_vars

\* a search on tessellated faces was called on face 0, recorded its second
\* triangle, and was then called on face 1, whose triangle is at the distance
\* of the record: the record still names face 0
C30_Witness ==
  /\ search.callback = "mesh_faces_nearest_point"
  /\ search.called = <<0, 1>>
  /\ nearest.index = 0
  /\ nearest.co = <<0, 2>>
  /\ nearest.dist_sq = 1
  /\ search.dists[2] = <<1>>

(* ---------------------------- C31 -------------------------------------- *)

\* the primitives the callback of the cast has been called on
Called == {cast.called[n] : n \in 1..Len(cast.called)}

\* the non-negative distances at which the ray meets the primitives the
\* callback has been called on
CandidateDists ==
  CASE cast.callback \in TriCallbacks ->
         {d \in UNION {{cast.prims[i + 1][k] : k \in 1..Len(cast.prims[i + 1])} : i \in Called} :
            d \in 0..MaxDist}
    [] cast.callback \in VertCallbacks ->
         {cast.ray.points[cast.prims[i + 1]].dist :
            i \in {j \in Called : /\ ~cast.ray.points[cast.prims[j + 1]].behind
                                  /\ cast.ray.points[cast.prims[j + 1]].dist # NaN}}
    [] cast.callback = "mesh_edges_spherecast" ->
         {cast.ray.points[1].dist :
            i \in {j \in Called : /\ cast.prims[j + 1][1] = cast.prims[j + 1][2]
                                  /\ ~cast.ray.points[1].behind
                                  /\ cast.ray.points[1].dist # NaN}}
           \cup {cast.ray.line.dist :
                   i \in {j \in Called : /\ cast.prims[j + 1][1] # cast.prims[j + 1][2]
                                         /\ cast.ray.line.isect
                                         /\ ~cast.ray.line.behind
                                         /\ cast.ray.line.close}}
    [] OTHER -> {}

MinOf(S) == CHOOSE x \in S : \A y \in S : x <= y

\* C31 (ray-hit update is order independent): a call of a ray-cast callback
\* changes the hit record only to a distance that is non-negative and
\* strictly less than the one it held, and after the callback has run over
\* any primitives in any order the recorded distance is the least of the
\* distance the cast started with and the non-negative distances of those
\* primitives.
C31_RayHitOrderIndependent ==
  /\ [](hit.dist = MinOf({cast.init} \cup CandidateDists))
  /\ [][hit' # hit => FloatGE0(hit'.dist) /\ FloatLess(hit'.dist, hit.dist)]_vars

\* a cast without a radius that started at FLT_MAX was run on a triangle at
\* distance 2 and then on a triangle at distance 1, and records distance 1
\* and the second triangle
C31_Witness ==
  /\ cast.callback = "mesh_looptri_spherecast"
  /\ cast.ray.radius = 0
  /\ cast.init = FLT_MAX
  /\ cast.prims = << <<1>>, <<2>> >>
  /\ cast.called = <<1, 0>>
  /\ hit.dist = 1
  /\ hit.index = 0

(* ---------------------------- C32 -------------------------------------- *)

\* the edge the last call of the callback was made on
LastEdge == cast.prims[cast.called[Len(cast.called)] + 1]

\* C32 (degenerate edge as point): a call of the edge ray-cast callback on
\* an edge whose endpoints coincide leaves the hit record that
\* mesh_verts_spherecast_do leaves when applied to that endpoint with the
\* index of the edge, whatever the ray and the record before the call.
C32_DegenerateEdgeAsPoint ==
  [][(/\ cast.callback = "mesh_edges_spherecast"
      /\ cast' # cast
      /\ cast'.prims[cast'.called[Len(cast'.called)] + 1][1]
           = cast'.prims[cast'.called[Len(cast'.called)] + 1][2])
       => hit' = mesh_verts_spherecast_do(hit, cast'.called[Len(cast'.called)],
                                          cast'.prims[cast'.called[Len(cast'.called)] + 1][1],
                                          cast.ray)]_vars

\* the edge callback was called on the other edge, which recorded a hit at
\* distance 2, and then on edge 0, whose endpoints coincide in a point at
\* distance 1 from the ray's origin: the record names edge 0 and that point
C32_Witness ==
  /\ cast.callback = "mesh_edges_spherecast"
  /\ cast.called = <<1, 0>>
  /\ LastEdge = <<1, 1>>
  /\ cast.ray.line.dist = 2
  /\ hit.index = 0
  /\ hit.dist = 1
  /\ hit.co = <<1, 0>>

(* ---------------------------- C33 -------------------------------------- *)

\* thread t holds the eval mutex of a surface
HoldsEvalMutex(t) == \E s \in Surfaces : eval_mutex[s] = t

\* thread t waits for or holds the mutex of a cache
AtCacheMutex(t) ==
  \/ pc[t] = "lock"
  \/ \E c \in 1..Len(caches) : caches[c].mutex = t

\* C33 (deadlock freedom and progress): no thread holds the eval mutex of a
\* surface while it waits for or holds the mutex of a cache, the eval mutex
\* is released before the slot is read, and with every build returning and
\* every thread scheduled fairly each call of an entry point that has
\* started returns.
C33_DeadlockFreedom ==
  /\ [](\A t \in Threads :
          HoldsEvalMutex(t) =>
            ~AtCacheMutex(t) /\ pc[t] \in {"init_body", "init_unlock"})
  /\ \A t \in Threads : (pc[t] # "idle") ~> (pc[t] = "idle" /\ ev[t].done)

\* three calls for the same slot are running: one holds the mutex of the
\* cache and is in the build, one waits for that mutex, and one holds the
\* eval mutex of the surface after waiting for it
C33_Witness ==
  \E t, u, v \in Threads :
    /\ pc[t] = "create" /\ bvh_cache[call[t].s] # NULL
    /\ caches[bvh_cache[call[t].s]].mutex = t
    /\ pc[u] = "lock" /\ call[u].s = call[t].s
    /\ pc[v] = "init_body" /\ eval_mutex[call[t].s] = v /\ ev[v].saw_null

(* ---------------------------- C34 -------------------------------------- *)

\* C34 (safe publication order): is_filled of a slot becomes true only in
\* the second write of an insert, when the slot already holds the tree of
\* the inserting call; the tree of a filled slot of a live cache does not
\* change; and a find that saw is_filled set and then reads the tree, locked
\* or not, reads the tree of the slot, which is the inserted one.
C34_SafePublication ==
  [][/\ \A c \in 1..Len(caches) : \A ty \in BVHCacheType :
          /\ (caches'[c].items[ty].is_filled /\ ~caches[c].items[ty].is_filled) =>
               \E u \in Threads :
                 /\ pc[u] = "insert_filled" /\ bvh_cache_l[u] = c /\ call[u].type = ty
                 /\ caches[c].items[ty].tree = data[u].tree
                 /\ caches'[c].items[ty].tree = data[u].tree
          /\ (caches[c].items[ty].is_filled /\ caches'[c].freed = 0) =>
               /\ caches'[c].items[ty].is_filled
               /\ caches'[c].items[ty].tree = caches[c].items[ty].tree
     /\ \A t \in Threads :
          (pc[t] = "find_tree" /\ pc'[t] # "find_tree") =>
            /\ Slot(bvh_cache_l[t], call[t].type).is_filled
            /\ data'[t].tree = Slot(bvh_cache_l[t], call[t].type).tree]_vars

\* a call has read is_filled and the tree of a slot without a lock and
\* returned the tree, while the call that inserted that tree has set
\* is_filled and not yet released the mutex
C34_Witness ==
  \E t, u \in Threads :
    /\ pc[u] = "unlock" /\ lock_started[u] /\ data[u].tree # NULL
    /\ pc[t] = "idle" /\ ev[t].done /\ ev[t].found /\ ev[t].locks = 0
    /\ ev[t].first_read = "filled"
    /\ SameTarget(call[t], call[u])
    /\ ev[t].ret = data[u].tree
    /\ data[t].tree = data[u].tree

(* ---------------------------- C35 -------------------------------------- *)

\* thread t takes a step of a call of an entry point: it starts the call,
\* or is in it
StepOfCall(t) ==
  /\ pc'[t] # pc[t]
  /\ call'[t].fn = "get"
  /\ pc[t] # "idle" \/ pc'[t] # "idle"

\* C35 (slot independence): a step of a call of an entry point for type V
\* on a surface leaves is_filled and tree of every slot other than slot V of
\* the cache of that surface, and of every slot of every other cache, as
\* they were.
C35_SlotIndependence ==
  [][\A t \in Threads :
       StepOfCall(t) =>
         \A c \in 1..Len(caches) : \A ty \in BVHCacheType :
           (c # bvh_cache'[call'[t].s] \/ ty # call'[t].type) =>
             caches'[c].items[ty] = caches[c].items[ty]]_vars

\* the cache of one surface has two filled slots with different trees, put
\* there by two calls, the second of which has just set is_filled, and the
\* cache of the other surface has a filled slot of its own
C35_Witness ==
  \E t \in Threads : \E s1, s2 \in Surfaces :
    /\ s1 # s2 /\ bvh_cache[s1] # NULL /\ bvh_cache[s2] # NULL
    /\ pc[t] = "unlock" /\ call[t].s = s1 /\ call[t].type = "EM_LOOPTRI"
    /\ ev[t].slot_writes = 2
    /\ LET a == caches[bvh_cache[s1]].items
           b == caches[bvh_cache[s2]].items
       IN /\ {ty \in BVHCacheType : a[ty].is_filled} = {"VERTS", "EM_LOOPTRI"}
          /\ {ty \in BVHCacheType : b[ty].is_filled} = {"VERTS"}
          /\ a["VERTS"].tree # NULL /\ a["EM_LOOPTRI"].tree # NULL
          /\ a["VERTS"].tree # a["EM_LOOPTRI"].tree
          /\ b["VERTS"].tree \notin {a["VERTS"].tree, a["EM_LOOPTRI"].tree}

(* ---------------------------- C36 -------------------------------------- *)

\* thread t holds a bundle of a mesh or an edit-mesh that it may release:
\* the one its last call returned, released already or not
MayRelease(t) ==
  pc[t] = "idle" /\ ev[t].done /\ call[t].fn # "find" /\ call[t].api \in {"mesh", "editmesh"}

\* C36 (release is idempotent): whenever a caller may release a bundle of
\* a mesh or an edit-mesh, the bundle after one release has no tree, and a
\* second release of it frees nothing and leaves the bundle as the first
\* release left it; and no tree has been freed twice.
C36_ReleaseIdempotent ==
  /\ \A t \in Threads :
       MayRelease(t) =>
         LET first == FreeBundle(call[t].api, trees, data[t])
             second == FreeBundle(call[t].api, first.trees, first.data)
         IN /\ first.data.tree = NULL
            /\ second.trees = first.trees
            /\ second.data = first.data
  /\ \A i \in 1..Len(trees) : trees[i].freed <= 1

\* a bundle of a mesh that held an uncached tree has been released: the
\* tree is freed once, the bundle is zeroed, and the caller may release it
\* again
C36_Witness ==
  \E t \in Threads :
    /\ MayRelease(t)
    /\ call[t].api = "mesh"
    /\ ev[t].ret # NULL /\ ~ev[t].ret_cached
    /\ trees[ev[t].ret].freed = 1
    /\ data[t] = ZeroData

(* ---------------------------- C37 -------------------------------------- *)

\* a call of bvhcache_has_tree has just returned
Asked == has_tree'.n # has_tree.n

\* a thread has written the tree of slot ty of cache c and not yet set its
\* is_filled
InsertInProgress(c, ty) ==
  \E u \in Threads : pc[u] = "insert_filled" /\ bvh_cache_l[u] = c /\ call[u].type = ty

\* C37 as stated (membership query): false for a null cache, and for a
\* cache and a present tree true exactly when a filled slot of the cache
\* holds the tree.
C37_Original ==
  [][Asked =>
       /\ has_tree'.bvh_cache = NULL => ~has_tree'.result
       /\ (has_tree'.bvh_cache # NULL /\ has_tree'.tree # NULL) =>
            (has_tree'.result
               <=> \E ty \in BVHCacheType :
                     /\ caches[has_tree'.bvh_cache].items[ty].is_filled
                     /\ caches[has_tree'.bvh_cache].items[ty].tree = has_tree'.tree)]_vars

\* C37 (membership query, amended): false for a null cache, and for a
\* cache and a present tree true exactly when a slot of the cache holds the
\* tree and that slot is filled or is being filled by an insert that has
\* written the tree and not yet set is_filled.
C37_MembershipQuery ==
  [][Asked =>
       /\ has_tree'.bvh_cache = NULL => ~has_tree'.result
       /\ (has_tree'.bvh_cache # NULL /\ has_tree'.tree # NULL) =>
            (has_tree'.result
               <=> \E ty \in BVHCacheType :
                     /\ caches[has_tree'.bvh_cache].items[ty].tree = has_tree'.tree
                     /\ \/ caches[has_tree'.bvh_cache].items[ty].is_filled
                        \/ InsertInProgress(has_tree'.bvh_cache, ty))]_vars

\* the query was made for the tree a call had written to its slot before
\* setting is_filled, and returned true
C37_Witness ==
  \E u \in Threads :
    /\ pc[u] = "insert_filled"
    /\ data[u].tree # NULL
    /\ ~Slot(bvh_cache_l[u], call[u].type).is_filled
    /\ has_tree.n = 1
    /\ has_tree.bvh_cache = bvh_cache_l[u]
    /\ has_tree.tree = data[u].tree
    /\ has_tree.result

====
